---- MODULE Spec2Model ----
(***************************************************************************)
(* Order-processing core of the EXODUS platform: the pre-trade RiskEngine  *)
(* (exodus_arc/risk/risk_engine.py), the OrderRouter                       *)
(* (exodus_arc/order_router.py), the ReconciliationService                 *)
(* (exodus_arc/reconciliation/reconciliation_service.py) and the pipeline  *)
(* coordinator process_order (orchestrator/app.py).                        *)
(*                                                                         *)
(* Numbers.  Quantities, prices, balances and times (seconds) are          *)
(* integers.  The engine's fractional limits are kept as percentages and   *)
(* every float comparison  a / b > c  of the source is evaluated exactly   *)
(* by cross-multiplication (b > 0 in every state of the model).            *)
(* Optional values (None or a value) are sequences: << >> or << v >>.      *)
(* In the ReconciliationService quantities are in hundredths (its quantity *)
(* tolerance 0.01 is 1) and prices in ten-thousandths; an average price is *)
(* the exact fraction << total value, filled quantity >>.                  *)
(***************************************************************************)
EXTENDS Integers, Sequences, FiniteSets, TLC

VARIABLES
    \* ---- RiskEngine fields (risk_engine.py:56-91)
    now,                       \* datetime.utcnow(), in seconds
    order_history,             \* self.order_history
    position_sizes,            \* self.position_sizes (defaultdict(float))
    account_balance,           \* self.account_balance
    margin_used,               \* self.margin_used
    circuit_breaker_active,    \* self.circuit_breaker_active
    circuit_breaker_until,     \* self.circuit_breaker_until (optional)
    custom_checks,             \* self.custom_checks
    \* ---- the last check_order call, as its caller observes it
    violations,                \* the list check_order returned
    ran,                       \* the checks the call invoked, in order
    breaker_path,              \* what the call did at the breaker gate
    reject_times,              \* timestamps of the reject violations produced
                               \* by successive calls (the last few of them)
    \* ---- OrderRouter fields (order_router.py:70-81)
    brokers,                   \* self.brokers, in dict (insertion) order
    routing_history,           \* self.routing_history
    routing_strategy,          \* self.routing_strategy
    round_robin_index,         \* self.round_robin_index
    failover_cache,            \* self.failover_cache
    \* ---- the last router call, as its caller observes it
    route_result,              \* what route_order returned (optional name)
    failure_raised,            \* the last handle_routing_failure raised
    completed,                 \* the order ids complete_order was called for
    floor_hit,                 \* some decrement found the load at zero
    selections,                \* the last direct _select_broker calls:
                               \* the list passed and the name returned
    \* ---- ReconciliationService fields (reconciliation_service.py:73-87)
    pending_orders,            \* self.pending_orders, in dict order
    fills_by_order,            \* self.fills_by_order (defaultdict(list))
    reconciliation_records,    \* self.reconciliation_records
    alert_callbacks,           \* self.alert_callbacks
    \* ---- the last service call, as its caller observes it
    alerts,                    \* the callback invocations the call made
    recon_raised,              \* the call raised
    \* ---- the calls of the service that overlap in time
    suspended,                 \* the coroutines suspended in an alert callback
    finished,                  \* the calls that are over, and how they ended
    \* ---- the last process_order call (orchestrator/app.py:93-141)
    stages,                    \* the components the call went through
    process_result,            \* the "status" of the dict it returned
    \* ---- the orders endpoint (orchestrator/app.py:51, 143-189)
    events,                    \* the lines of data/events.jsonl
    responses,                 \* what create_order answered, call by call
    \* ---- the health monitoring task (order_router.py:80-81, 403-474)
    health_check_task,         \* self.health_check_task is set
    health_pc,                 \* where the task's coroutine is suspended
    health_iter,               \* the pass's dict iterator and its "broker"
    health_cancel,             \* cancel() was called, not yet delivered
    health_probed,             \* the venues the current pass has probed
    health_pass                \* parity of the number of passes begun

riskVars == <<now, order_history, position_sizes, account_balance, margin_used,
              circuit_breaker_active, circuit_breaker_until, custom_checks,
              violations, ran, breaker_path, reject_times>>

routerVars == <<brokers, routing_history, routing_strategy, round_robin_index,
                failover_cache, route_result, failure_raised, completed,
          floor_hit>>

selectVars == <<selections>>

reconVars == <<pending_orders, fills_by_order, reconciliation_records,
               alert_callbacks, alerts, recon_raised, suspended, finished>>

pipelineVars == <<stages, process_result>>
apiVars == <<events, responses>>
healthVars == <<health_check_task, health_pc, health_iter, health_cancel,
                health_probed, health_pass>>

vars == <<now, order_history, position_sizes, account_balance, margin_used,
          circuit_breaker_active, circuit_breaker_until, custom_checks,
          violations, ran, breaker_path, reject_times,
          brokers, routing_history, routing_strategy, round_robin_index,
          failover_cache, route_result, failure_raised, completed,
          floor_hit, selections,
          pending_orders, fills_by_order, reconciliation_records,
          alert_callbacks, alerts, recon_raised, suspended, finished,
          stages, process_result,
          events, responses, health_check_task, health_pc, health_iter,
          health_cancel, health_probed, health_pass>>

----------------------------------------------------------------------------
(* Bounds of the model *)

MaxTime == 360          \* the clock stops advancing here (breaker model)
MaxAbsPosition == 60000 \* update_positions keeps |position| within this
MaxOrderHistory == 10   \* update_order_history calls modelled
MaxCustom == 2          \* custom checks registered (evaluation model)
MaxBreakerCustom == 5   \* custom checks registered (breaker model)
MaxRejectLog == 5       \* reject timestamps remembered across calls
MaxFailovers == 1       \* failovers modelled per order
MaxSelections == 3      \* direct _select_broker calls remembered
MaxFills == 2           \* record_fill calls modelled per order id
MaxCallbacks == 2       \* alert callbacks registered
MaxRecords == 1         \* no end-of-day run once that many records are stored
MaxRoutes == 2          \* route_order calls modelled (rerouting model)
MaxHalfDays == 3        \* half days that pass (cleanup model)
MaxRequests == 2         \* create_order calls modelled
MaxAttempts == 2        \* failovers modelled in all (rerouting model)

----------------------------------------------------------------------------
(* Helpers *)

None == << >>
Some(v) == << v >>

(* An order dictionary, with the keys the components read. *)
Order(id, symbol, qty, price, side, type) ==
    [id |-> id, symbol |-> symbol, qty |-> qty, price |-> price,
     side |-> side, type |-> type]

Abs(x) == IF x < 0 THEN -x ELSE x

RECURSIVE SumOver(_, _)
SumOver(f, S) ==
    IF S = {} THEN 0
    ELSE LET x == CHOOSE y \in S : TRUE IN f[x] + SumOver(f, S \ {x})

Range(s) == { s[i] : i \in 1..Len(s) }

----------------------------------------------------------------------------
(* RiskEngine: configuration (self.limits) *)

MaxUtilizationPct == 80          \* max_utilization 0.8
MarginCallThresholdPct == 90     \* margin_call_threshold 0.9
MarginRatePct == 2               \* required_margin = notional * 0.02
MaxPositionSize == 100000        \* max_position_size
MaxTotalExposure == 1000000      \* max_total_exposure
OrdersPerMinute == 10            \* orders_per_minute
OrdersPerHour == 100             \* orders_per_hour
NotionalPerHour == 500000        \* notional_per_hour
MaxPriceDeviationPct == 5        \* max_price_deviation 0.05
MaxSpreadMultiple == 5           \* max_spread_multiple 5.0
MaxRejectionsPerMinute == 5      \* max_rejections_per_minute
CircuitOpenDuration == 300       \* circuit_open_duration
LargeNotionalPct == 10           \* max_total_exposure * 0.1
OneMinute == 60                  \* timedelta(minutes=1)
OneHour == 3600                  \* timedelta(hours=1)
HistoryCap == 1000               \* "Keep only last 1000 orders"
DefaultBalance == 10000          \* self.account_balance = 10000.0

(* Symbols are character sequences, so that the router's prefix, suffix and *)
(* substring tests are computed and not assumed.                            *)
EURUSD == <<"E", "U", "R", "U", "S", "D">>
USDJPY == <<"U", "S", "D", "J", "P", "Y">>
AAPL == <<"A", "A", "P", "L">>
Symbols == {EURUSD, USDJPY, AAPL}

RiskViolation(check, result) ==
    [check |-> check, result |-> result, timestamp |-> now]

(* order.get("price", market_data.get("mid", 0)): the order's price when    *)
(* the key is present, the market mid otherwise (0 when there is no mid).   *)
PriceOrMid(order, market_data) ==
    IF order.price # None THEN order.price[1] ELSE market_data.mid

(* numerator / balance > pct / 100, with numerator in hundredths: the       *)
(* quotient of lines 186-187 compared with a limit, for a balance of either *)
(* sign.                                                                    *)
ExceedsRatio(numerator, pct, balance) ==
    IF balance > 0 THEN numerator > pct * balance
    ELSE numerator < pct * balance

(* lines 186-187 divide by self.account_balance: ZeroDivisionError when the *)
(* balance is 0 and the price is valid.                                     *)
BuyingPowerRaises(order, market_data) ==
    PriceOrMid(order, market_data) > 0 /\ account_balance = 0

(* Mutant: the margin-call threshold is tested before the ceiling. *)
_check_buying_power_warning_first(order, market_data) ==
    LET price == PriceOrMid(order, market_data)
        notional_value == order.qty * price
        lhs == 100 * margin_used + MarginRatePct * notional_value
    IN  IF price <= 0
        THEN Some(RiskViolation("buying_power", "reject"))
        ELSE IF ExceedsRatio(lhs, MarginCallThresholdPct, account_balance)
        THEN Some(RiskViolation("buying_power", "warning"))
        ELSE IF ExceedsRatio(lhs, MaxUtilizationPct, account_balance)
        THEN Some(RiskViolation("buying_power", "reject"))
        ELSE None

(* lines 170-216, for a balance other than 0 *)
_check_buying_power(order, market_data) ==
    LET price == PriceOrMid(order, market_data)
        notional_value == order.qty * price
        \* utilization_after = (margin_used + notional * 0.02) / balance,
        \* in hundredths of a percent of the balance
        lhs == 100 * margin_used + MarginRatePct * notional_value
    IN  IF price <= 0
        THEN Some(RiskViolation("buying_power", "reject"))
        ELSE IF ExceedsRatio(lhs, MaxUtilizationPct, account_balance)
        THEN Some(RiskViolation("buying_power", "reject"))
        ELSE IF ExceedsRatio(lhs, MarginCallThresholdPct, account_balance)
        THEN Some(RiskViolation("buying_power", "warning"))
        ELSE None

_check_position_limits(order, market_data) ==
    LET current_position == position_sizes[order.symbol]
        new_position == IF order.side = "buy"
                        THEN current_position + order.qty
                        ELSE current_position - order.qty
        AbsPos == [s \in DOMAIN position_sizes |-> Abs(position_sizes[s])]
        total_exposure == SumOver(AbsPos, DOMAIN position_sizes)
        price == PriceOrMid(order, market_data)
        new_total_exposure ==
            IF order.side = "buy"
            THEN total_exposure - (current_position * price)
                                + (new_position * price)
            ELSE total_exposure - (Abs(current_position) * price)
                                + (Abs(new_position) * price)
    IN  IF Abs(new_position) > MaxPositionSize
        THEN Some(RiskViolation("position_limit", "reject"))
        ELSE IF new_total_exposure > MaxTotalExposure
        THEN Some(RiskViolation("position_limit", "reject"))
        ELSE None

RECURSIVE SumNotional(_)
SumNotional(hist) ==
    IF hist = << >> THEN 0
    ELSE Head(hist).qty * Head(hist).price + SumNotional(Tail(hist))

_check_velocity_limits(order, market_data) ==
    LET InMinute(o) == o.timestamp > now - OneMinute
        InHour(o) == o.timestamp > now - OneHour
        recent_orders_minute == SelectSeq(order_history, InMinute)
        recent_orders_hour == SelectSeq(order_history, InHour)
        notional_last_hour == SumNotional(recent_orders_hour)
    IN  IF Len(recent_orders_minute) >= OrdersPerMinute
        THEN Some(RiskViolation("velocity_limit", "reject"))
        ELSE IF Len(recent_orders_hour) >= OrdersPerHour
        THEN Some(RiskViolation("velocity_limit", "warning"))
        ELSE IF notional_last_hour >= NotionalPerHour
        THEN Some(RiskViolation("velocity_limit", "warning"))
        ELSE None

_check_price_sanity(order, market_data) ==
    IF order.price = None \/ order.price = Some(0)
    THEN None            \* "if not price": market orders skip the check
    ELSE LET price == order.price[1]
             mid_price == market_data.mid
             spread == market_data.spread
         IN  IF mid_price = 0      \* "if not mid_price": absent or zero
             THEN Some(RiskViolation("price_sanity", "warning"))
             ELSE IF 100 * Abs(price - mid_price)
                        > MaxPriceDeviationPct * mid_price
             THEN Some(RiskViolation("price_sanity", "reject"))
             ELSE IF spread > 0
                     /\ Abs(price - mid_price) > MaxSpreadMultiple * spread
             THEN Some(RiskViolation("price_sanity", "warning"))
             ELSE None

_check_notional_limits(order, market_data) ==
    LET notional_value == order.qty * PriceOrMid(order, market_data)
    IN  IF 100 * notional_value > LargeNotionalPct * MaxTotalExposure
        THEN Some(RiskViolation("notional_limit", "warning"))
        ELSE None

(* The list "checks" of check_order, by the name of each function. *)
checks == <<"buying_power", "position_limit", "velocity_limit",
            "price_sanity", "notional_limit">>

CheckFunc(name, order, market_data) ==
    CASE name = "buying_power" -> _check_buying_power(order, market_data)
      [] name = "position_limit" -> _check_position_limits(order, market_data)
      [] name = "velocity_limit" -> _check_velocity_limits(order, market_data)
      [] name = "price_sanity" -> _check_price_sanity(order, market_data)
      [] name = "notional_limit" -> _check_notional_limits(order, market_data)

(* Mutant: the loop over the built-in checks never breaks. *)
BreaksOnNothing(violation) == FALSE

(* "if violation.result == REJECT: break" *)
BreaksOn(violation) == violation.result = "reject"

(* The loop over the built-in checks: [vs, rn] are the violations appended *)
(* and the checks invoked so far.                                           *)
RECURSIVE RunBuiltinChecks(_, _, _, _, _)
RunBuiltinChecks(i, order, market_data, vs, rn) ==
    IF i > Len(checks) THEN [vs |-> vs, rn |-> rn]
    ELSE LET violation == CheckFunc(checks[i], order, market_data)
             rn2 == Append(rn, checks[i])
         IN  IF violation = None
             THEN RunBuiltinChecks(i + 1, order, market_data, vs, rn2)
             ELSE IF BreaksOn(violation[1])
             THEN [vs |-> vs \o violation, rn |-> rn2]
             ELSE RunBuiltinChecks(i + 1, order, market_data,
                                   vs \o violation, rn2)

(* A custom check is an opaque callable; the model registers two kinds: it *)
(* returns a violation of severity reject, or it raises.  (One that returns *)
(* None adds nothing to the list, like one that raises.)  The violation a   *)
(* custom check returns carries the check name "custom".                    *)
CustomKinds == {"reject", "raise"}

CustomOutcome(kind) ==
    IF kind \in {"reject"}
    THEN Some(RiskViolation("custom", kind))
    ELSE None           \* returned None, or raised and was caught (148-150)

(* Mutant: the try is around the loop, a raising check ends it. *)
RECURSIVE RunCustomChecksUntilRaise(_, _, _)
RunCustomChecksUntilRaise(i, vs, rn) ==
    IF i > Len(custom_checks) THEN [vs |-> vs, rn |-> rn]
    ELSE IF custom_checks[i] = "raise"
    THEN [vs |-> vs, rn |-> Append(rn, "custom")]
    ELSE RunCustomChecksUntilRaise(i + 1, vs \o CustomOutcome(custom_checks[i]),
                                   Append(rn, "custom"))

RECURSIVE RunCustomChecks(_, _, _)
RunCustomChecks(i, vs, rn) ==
    IF i > Len(custom_checks) THEN [vs |-> vs, rn |-> rn]
    ELSE RunCustomChecks(i + 1, vs \o CustomOutcome(custom_checks[i]),
                         Append(rn, "custom"))

(* _update_circuit_breaker: the breaker state it leaves, from the list of  *)
(* this call's violations.                                                  *)
RecentRejections(vs) ==
    LET Recent(v) == v.result = "reject" /\ v.timestamp > now - OneMinute
    IN  SelectSeq(vs, Recent)

_update_circuit_breaker(vs, active, until) ==
    IF Len(RecentRejections(vs)) >= MaxRejectionsPerMinute
    THEN [active |-> TRUE, until |-> Some(now + CircuitOpenDuration)]
    ELSE [active |-> active, until |-> until]

(* Mutants: the comparison with the expiry reversed; and inclusive. *)
BreakerNotExpiredReversed == now > circuit_breaker_until[1]
BreakerNotExpiredInclusive == now <= circuit_breaker_until[1]

(* "datetime.utcnow() < self.circuit_breaker_until" *)
BreakerNotExpired == now < circuit_breaker_until[1]

(* The reject timestamps of successive calls: those of the trailing minute, *)
(* the last MaxRejectLog of them.                                           *)
LogRejects(vs) ==
    LET IsReject(v) == v.result = "reject"
        new == SelectSeq(vs, IsReject)
        InWindow(t) == t > now - OneMinute
        all == SelectSeq(reject_times, InWindow)
                  \o [i \in 1..Len(new) |-> new[i].timestamp]
    IN  IF Len(all) > MaxRejectLog
        THEN SubSeq(all, Len(all) - MaxRejectLog + 1, Len(all))
        ELSE all

check_order(order, market_data) ==
    IF circuit_breaker_active /\ BreakerNotExpired
    THEN \* lines 109-118: one violation, and the call returns
         /\ violations' = <<RiskViolation("circuit_breaker", "reject")>>
         /\ ran' = << >>
         /\ breaker_path' = "open"
         /\ UNCHANGED <<circuit_breaker_active, circuit_breaker_until>>
    ELSE \* lines 119-155: reset an expired breaker, run every check
         LET builtin == RunBuiltinChecks(1, order, market_data, << >>, << >>)
             all == RunCustomChecks(1, builtin.vs, builtin.rn)
             \* lines 119-122: an active breaker is expired here, and reset
             cb == IF circuit_breaker_active
                   THEN _update_circuit_breaker(all.vs, FALSE, None)
                   ELSE _update_circuit_breaker(all.vs, circuit_breaker_active,
                                                circuit_breaker_until)
         IN  /\ violations' = all.vs
             /\ ran' = all.rn
             /\ breaker_path' = IF circuit_breaker_active
                                THEN "reset" ELSE "closed"
             /\ circuit_breaker_active' = cb.active
             /\ circuit_breaker_until' = cb.until

CheckOrder(order, market_data) ==
    /\ UNCHANGED <<now, order_history, position_sizes, account_balance,
                   margin_used, custom_checks>>
    /\ UNCHANGED <<routerVars, selectVars, reconVars, pipelineVars, apiVars, healthVars>>
    /\ check_order(order, market_data)

(* A direct call of _check_buying_power(order, market_data), as the tests    *)
(* make it: what it returned, or that it raised, is noted where the last    *)
(* check_order call is.                                                     *)
CheckBuyingPower(order, market_data) ==
    /\ IF BuyingPowerRaises(order, market_data)
       THEN /\ violations' = << >>
            /\ breaker_path' = "raised"
       ELSE /\ violations' = _check_buying_power(order, market_data)
            /\ breaker_path' = "direct"
    /\ ran' = <<"buying_power">>
    /\ UNCHANGED <<now, order_history, position_sizes, account_balance,
                   margin_used, circuit_breaker_active, circuit_breaker_until,
                   custom_checks, reject_times>>
    /\ UNCHANGED <<routerVars, selectVars, reconVars, pipelineVars, apiVars, healthVars>>

(* The observer of the breaker model: it notes the time of every reject    *)
(* violation the call returned.                                             *)
LogRejectTimes == reject_times' = LogRejects(violations')

update_order_history(order) ==
    LET order_record == [timestamp |-> now,
                         symbol |-> order.symbol,
                         qty |-> order.qty,
                         price |-> IF order.price # None
                                   THEN order.price[1] ELSE 0,
                         side |-> order.side]
        appended == Append(order_history, order_record)
    IN  order_history' =
            IF Len(appended) > HistoryCap
            THEN SubSeq(appended, Len(appended) - HistoryCap + 1, Len(appended))
            ELSE appended

UpdateOrderHistory(order) ==
    /\ update_order_history(order)
    /\ UNCHANGED <<now, position_sizes, account_balance, margin_used,
                   circuit_breaker_active, circuit_breaker_until,
                   custom_checks, violations, ran, breaker_path,
                   reject_times>>
    /\ UNCHANGED <<routerVars, selectVars, reconVars, pipelineVars, apiVars, healthVars>>

update_positions(symbol, quantity, side) ==
    position_sizes' =
        [position_sizes EXCEPT
            ![symbol] = IF side = "buy" THEN @ + quantity ELSE @ - quantity]

UpdatePositions(symbol, quantity, side) ==
    /\ update_positions(symbol, quantity, side)
    /\ UNCHANGED <<now, order_history, account_balance, margin_used,
                   circuit_breaker_active, circuit_breaker_until,
                   custom_checks, violations, ran, breaker_path,
                   reject_times>>
    /\ UNCHANGED <<routerVars, selectVars, reconVars, pipelineVars, apiVars, healthVars>>

update_account_balance(balance, margin) ==
    /\ account_balance' = balance
    /\ margin_used' = margin

UpdateAccountBalance(balance, margin) ==
    /\ update_account_balance(balance, margin)
    /\ UNCHANGED <<now, order_history, position_sizes,
                   circuit_breaker_active, circuit_breaker_until,
                   custom_checks, violations, ran, breaker_path,
                   reject_times>>
    /\ UNCHANGED <<routerVars, selectVars, reconVars, pipelineVars, apiVars, healthVars>>

add_custom_check(check_func) ==
    custom_checks' = Append(custom_checks, check_func)

AddCustomCheck(check_func) ==
    /\ add_custom_check(check_func)
    /\ UNCHANGED <<now, order_history, position_sizes, account_balance,
                   margin_used, circuit_breaker_active, circuit_breaker_until,
                   violations, ran, breaker_path, reject_times>>
    /\ UNCHANGED <<routerVars, selectVars, reconVars, pipelineVars, apiVars, healthVars>>

(* The passage of time between two calls. *)
Tick(dt) ==
    /\ now' = now + dt
    /\ UNCHANGED <<order_history, position_sizes, account_balance, margin_used,
                   circuit_breaker_active, circuit_breaker_until,
                   custom_checks, violations, ran, breaker_path,
                   reject_times>>
    /\ UNCHANGED <<routerVars, selectVars, reconVars, pipelineVars, apiVars, healthVars>>

----------------------------------------------------------------------------
(* OrderRouter *)

OrderIds == {"o1", "o2"}
BrokerNames == {"b1", "b2"}

StartsWith(s, p) == Len(s) >= Len(p) /\ SubSeq(s, 1, Len(p)) = p
EndsWith(s, p) == Len(s) >= Len(p) /\ SubSeq(s, Len(s) - Len(p) + 1, Len(s)) = p
Contains(s, p) ==
    \E i \in 1..(Len(s) - Len(p) + 1) : SubSeq(s, i, i + Len(p) - 1) = p

EUR == <<"E", "U", "R">>
GBP == <<"G", "B", "P">>
USD == <<"U", "S", "D">>

(* self.brokers is a dict: a sequence of endpoints in insertion order, one  *)
(* per name.                                                                *)
Names(bs) == [i \in 1..Len(bs) |-> bs[i].name]
HasBroker(bs, name) == \E i \in 1..Len(bs) : bs[i].name = name
IndexOf(bs, name) == CHOOSE i \in 1..Len(bs) : bs[i].name = name
Broker(bs, name) == bs[IndexOf(bs, name)]

(* The iterator of "for name, broker in self.brokers.items()" of a health   *)
(* pass suspended in a probe: the position of the item it has handed out,  *)
(* the size of the dict when it was created, and the local "broker" (the   *)
(* name of the endpoint, and whether self.brokers[name] is no longer that  *)
(* object).  Two fields only remember the pass: the venues registered when  *)
(* it began, and whether it follows an iteration that raised.               *)
NoIterator ==
    [pos |-> 0, size |-> 0, name |-> "", stale |-> FALSE, registered |-> {},
     retry |-> FALSE]

(* self.brokers[name] is bound to another object, or deleted, while a pass  *)
(* holds the endpoint in its local "broker".                                *)
Detach(name) ==
    health_iter' = IF health_pc = "probe" /\ health_iter.name = name
                   THEN [health_iter EXCEPT !.stale = TRUE]
                   ELSE health_iter

BrokerEndpoint(name, priority, max_concurrent, capabilities) ==
    [name |-> name, status |-> "connected", priority |-> priority,
     max_concurrent_orders |-> max_concurrent, current_load |-> 0,
     last_heartbeat |-> now, capabilities |-> capabilities]

register_broker(name, priority, max_concurrent, capabilities) ==
    LET endpoint == BrokerEndpoint(name, priority, max_concurrent, capabilities)
    IN  brokers' = IF HasBroker(brokers, name)
                   THEN [brokers EXCEPT ![IndexOf(brokers, name)] = endpoint]
                   ELSE Append(brokers, endpoint)

RegisterBroker(name, priority, max_concurrent, capabilities) ==
    /\ register_broker(name, priority, max_concurrent, capabilities)
    /\ UNCHANGED <<routing_history, routing_strategy, round_robin_index,
                   failover_cache, route_result, failure_raised, completed,
                   floor_hit>>
    /\ UNCHANGED <<riskVars, selectVars, reconVars, pipelineVars, apiVars>>
    /\ Detach(name)
    /\ UNCHANGED <<health_check_task, health_pc, health_cancel, health_probed,
                   health_pass>>

unregister_broker(name) ==
    LET Other(b) == b.name # name
    IN  brokers' = SelectSeq(brokers, Other)

UnregisterBroker(name) ==
    /\ unregister_broker(name)
    /\ UNCHANGED <<routing_history, routing_strategy, round_robin_index,
                   failover_cache, route_result, failure_raised, completed,
                   floor_hit>>
    /\ UNCHANGED <<riskVars, selectVars, reconVars, pipelineVars, apiVars>>
    /\ Detach(name)
    /\ UNCHANGED <<health_check_task, health_pc, health_cancel, health_probed,
                   health_pass>>

RequiredCapabilities(order) ==
    (CASE order.type = "limit" -> {"limit_orders"}
       [] order.type = "stop" -> {"stop_orders"}
       [] OTHER -> {})
    \cup
    (IF StartsWith(order.symbol, EUR) \/ StartsWith(order.symbol, GBP)
     THEN {"forex"}
     ELSE IF EndsWith(order.symbol, USD) \/ Contains(order.symbol, USD)
     THEN {"forex"}
     ELSE {"equities"})

_broker_supports_order(broker, order) ==
    \A cap \in RequiredCapabilities(order) : cap \in broker.capabilities

(* Mutant: the filter without the capacity test. *)
IsAvailableAtAnyLoad(broker, order) ==
    /\ broker.status = "connected"
    /\ _broker_supports_order(broker, order)

IsAvailable(broker, order) ==
    /\ broker.status = "connected"
    /\ broker.current_load < broker.max_concurrent_orders
    /\ _broker_supports_order(broker, order)

_get_available_brokers(bs, order) ==
    LET Avail(b) == IsAvailable(b, order)
    IN  Names(SelectSeq(bs, Avail))

(* list.sort(key=..., reverse=...) on (name, key) pairs: a stable sort, by *)
(* insertion.  With reverse the order of the keys is descending and equal   *)
(* keys keep their order.                                                   *)
RECURSIVE InsertPair(_, _, _)
InsertPair(sorted, x, reverse) ==
    IF sorted = << >> THEN <<x>>
    ELSE IF (IF reverse THEN x[2] > Head(sorted)[2] ELSE x[2] < Head(sorted)[2])
    THEN <<x>> \o sorted
    ELSE <<Head(sorted)>> \o InsertPair(Tail(sorted), x, reverse)

RECURSIVE SortPairs(_, _)
SortPairs(pairs, reverse) ==
    IF pairs = << >> THEN << >>
    ELSE InsertPair(SortPairs(SubSeq(pairs, 1, Len(pairs) - 1), reverse),
                    pairs[Len(pairs)], reverse)

(* Mutant: the loads sorted in descending order. *)
_least_loaded_select_reversed(bs, names) ==
    LET broker_loads ==
            [i \in 1..Len(names) |-> <<names[i], Broker(bs, names[i]).current_load>>]
    IN  SortPairs(broker_loads, TRUE)[1][1]

_least_loaded_select(bs, names) ==
    LET broker_loads ==
            [i \in 1..Len(names) |-> <<names[i], Broker(bs, names[i]).current_load>>]
    IN  SortPairs(broker_loads, FALSE)[1][1]

(* Mutant: the priorities sorted in ascending order. *)
_priority_based_select_ascending(bs, names) ==
    LET broker_priorities ==
            [i \in 1..Len(names) |-> <<names[i], Broker(bs, names[i]).priority>>]
    IN  SortPairs(broker_priorities, FALSE)[1][1]

_priority_based_select(bs, names) ==
    LET broker_priorities ==
            [i \in 1..Len(names) |-> <<names[i], Broker(bs, names[i]).priority>>]
    IN  SortPairs(broker_priorities, TRUE)[1][1]

(* Mutant: the index is not advanced after the selection. *)
_round_robin_select_stuck(names, index) ==
    LET start == IF index >= Len(names) THEN 0 ELSE index
    IN  [selected |-> names[start + 1], index |-> start]

(* _round_robin_select: the name selected and the index it leaves. *)
_round_robin_select(names, index) ==
    LET start == IF index >= Len(names) THEN 0 ELSE index
    IN  [selected |-> names[start + 1], index |-> start + 1]

(* Mutant: the cache is not consulted. *)
_failover_select_uncached(bs, names, order_id) ==
    _least_loaded_select(bs, names)

_failover_select(bs, names, order_id) ==
    IF failover_cache[order_id] # << >>
       /\ failover_cache[order_id][1] \in Range(names)
    THEN failover_cache[order_id][1]
    ELSE _least_loaded_select(bs, names)

(* _select_broker on a non-empty list: [selected, index], index being the  *)
(* round-robin index after the call.                                        *)
_select_broker(bs, names, order_id) ==
    CASE routing_strategy = "round_robin" ->
            _round_robin_select(names, round_robin_index)
      [] routing_strategy = "least_loaded" ->
            [selected |-> _least_loaded_select(bs, names),
             index |-> round_robin_index]
      [] routing_strategy = "priority_based" ->
            [selected |-> _priority_based_select(bs, names),
             index |-> round_robin_index]
      [] routing_strategy = "failover" ->
            [selected |-> _failover_select(bs, names, order_id),
             index |-> round_robin_index]

RoutingDecision(order_id, selected_broker) ==
    [order_id |-> order_id, selected_broker |-> selected_broker,
     routing_strategy |-> routing_strategy, failover_attempts |-> 0,
     route_timestamp |-> now,
     reason |-> <<"Selected via", routing_strategy>>]

(* Mutant: the load of the venue is not updated. *)
AddLoadSkipped(bs, name, delta) == bs

AddLoad(bs, name, delta) ==
    [bs EXCEPT ![IndexOf(bs, name)].current_load = @ + delta]

(* Mutant: the decrement without its floor. *)
DecrementLoadUnfloored(load) == load - 1

(* max(0, current_load - 1) *)
DecrementLoad(load) == IF load - 1 > 0 THEN load - 1 ELSE 0

ReleaseLoad(bs, name) ==
    [bs EXCEPT ![IndexOf(bs, name)].current_load = DecrementLoad(@)]

route_order(order) ==
    LET available_brokers == _get_available_brokers(brokers, order)
    IN  IF available_brokers = << >>
        THEN /\ route_result' = None
             /\ UNCHANGED <<brokers, routing_history, round_robin_index>>
        ELSE LET sel == _select_broker(brokers, available_brokers, order.id)
             IN  /\ routing_history' =
                        Append(routing_history,
                               RoutingDecision(order.id, sel.selected))
                 /\ brokers' = AddLoad(brokers, sel.selected, 1)
                 /\ round_robin_index' = sel.index
                 /\ route_result' = Some(sel.selected)

RouteOrder(order) ==
    /\ route_order(order)
    /\ completed' = completed \ {order.id}
    /\ UNCHANGED <<routing_strategy, failover_cache, failure_raised, floor_hit>>
    /\ UNCHANGED <<riskVars, selectVars, reconVars, pipelineVars, apiVars, healthVars>>

(* Mutant: the search runs from the oldest decision. *)
DecisionIndexOldest(order_id) ==
    LET found == {i \in 1..Len(routing_history) :
                     routing_history[i].order_id = order_id}
    IN  IF found = {} THEN 0
        ELSE CHOOSE i \in found : \A j \in found : i <= j

(* The index of the decision "for d in reversed(self.routing_history)"     *)
(* finds: the last one of the order, 0 when there is none.                  *)
DecisionIndex(order_id) ==
    LET found == {i \in 1..Len(routing_history) :
                     routing_history[i].order_id = order_id}
    IN  IF found = {} THEN 0
        ELSE CHOOSE i \in found : \A j \in found : j <= i

handle_routing_failure(order_id, failed_broker) ==
    LET d == DecisionIndex(order_id)
        \* lines 306-307
        marked == IF HasBroker(brokers, failed_broker)
                  THEN [brokers EXCEPT
                          ![IndexOf(brokers, failed_broker)].status = "degraded"]
                  ELSE brokers
        \* lines 310-313
        Candidate(b) == b.name # failed_broker /\ b.status = "connected"
        available_brokers == Names(SelectSeq(marked, Candidate))
    IN  IF d = 0
        THEN /\ failure_raised' = FALSE
             /\ UNCHANGED <<brokers, routing_history, round_robin_index,
                            failover_cache, floor_hit>>
        ELSE IF available_brokers = << >>
        THEN /\ brokers' = marked
             /\ failure_raised' = FALSE
             /\ UNCHANGED <<routing_history, round_robin_index,
                            failover_cache, floor_hit>>
        ELSE LET sel == _select_broker(marked, available_brokers, order_id)
                 new_broker == sel.selected
             IN  \* lines 319-325
                 /\ routing_history' =
                      [routing_history EXCEPT
                         ![d].selected_broker = new_broker,
                         ![d].failover_attempts = @ + 1,
                         ![d].reason = <<"Failover", failed_broker, new_broker>>]
                 /\ failover_cache' =
                      [failover_cache EXCEPT ![order_id] = Append(@, new_broker)]
                 /\ round_robin_index' = sel.index
                 \* lines 327-329: self.brokers[failed_broker] raises KeyError
                 \* when the failed broker is not registered
                 /\ IF HasBroker(marked, failed_broker)
                    THEN /\ brokers' = AddLoad(ReleaseLoad(marked, failed_broker),
                                               new_broker, 1)
                         /\ floor_hit' =
                              (floor_hit
                               \/ Broker(marked, failed_broker).current_load = 0)
                         /\ failure_raised' = FALSE
                    ELSE /\ brokers' = marked
                         /\ failure_raised' = TRUE
                         /\ UNCHANGED floor_hit

HandleRoutingFailure(order_id, failed_broker) ==
    /\ handle_routing_failure(order_id, failed_broker)
    /\ UNCHANGED <<routing_strategy, route_result, completed>>
    /\ UNCHANGED <<riskVars, selectVars, reconVars, pipelineVars, apiVars, healthVars>>

complete_order(order_id, broker_name) ==
    /\ IF HasBroker(brokers, broker_name)
       THEN /\ brokers' = ReleaseLoad(brokers, broker_name)
            /\ floor_hit' =
                 (floor_hit \/ Broker(brokers, broker_name).current_load = 0)
       ELSE UNCHANGED <<brokers, floor_hit>>
    /\ failover_cache' = [failover_cache EXCEPT ![order_id] = << >>]

CompleteOrder(order_id, broker_name) ==
    /\ complete_order(order_id, broker_name)
    /\ completed' = completed \cup {order_id}
    /\ UNCHANGED <<routing_history, routing_strategy, round_robin_index,
                   route_result, failure_raised>>
    /\ UNCHANGED <<riskVars, selectVars, reconVars, pipelineVars, apiVars, healthVars>>

RoutingStrategies == {"round_robin", "least_loaded", "priority_based", "failover"}

set_routing_strategy(strategy) == routing_strategy' = strategy

SetRoutingStrategy(strategy) ==
    /\ set_routing_strategy(strategy)
    /\ UNCHANGED <<brokers, routing_history, round_robin_index, failover_cache,
                   route_result, failure_raised, completed, floor_hit>>
    /\ UNCHANGED <<riskVars, selectVars, reconVars, pipelineVars, apiVars, healthVars>>

(* ---- health monitoring, lines 403-474 ---- *)

(* The frame of the steps of the health task and of its two controls. *)
HealthFrame ==
    /\ UNCHANGED <<routing_history, routing_strategy, round_robin_index,
                   failover_cache, route_result, failure_raised, completed,
                   floor_hit>>
    /\ UNCHANGED <<riskVars, selectVars, reconVars, pipelineVars, apiVars>>

(* lines 403-410, called when no task is set and none is ending: app.py     *)
(* calls it once, at startup (line 400).  create_task schedules the loop,   *)
(* which runs when the caller next awaits.                                  *)
start_health_monitoring ==
    /\ ~health_check_task /\ ~health_cancel
    /\ health_pc \in {"idle", "done"}
    /\ health_check_task' = TRUE
    /\ health_pc' = "created"
    /\ health_iter' = NoIterator
    /\ health_probed' = {}
    /\ UNCHANGED <<health_cancel, health_pass>>

StartHealthMonitoring ==
    /\ start_health_monitoring
    /\ UNCHANGED brokers
    /\ HealthFrame

(* lines 412-418: task.cancel() asks for a CancelledError to be thrown      *)
(* into the loop where it is suspended, the next time the event loop runs   *)
(* it.                                                                      *)
stop_health_monitoring ==
    IF health_check_task
    THEN /\ health_cancel' = TRUE
         /\ health_check_task' = FALSE
         /\ UNCHANGED <<health_pc, health_iter, health_probed, health_pass>>
    ELSE UNCHANGED healthVars

StopHealthMonitoring ==
    /\ stop_health_monitoring
    /\ UNCHANGED brokers
    /\ HealthFrame

(* What the awaited call inside the probe does (line 471 simulates it with  *)
(* a sleep): it completes, or it raises.                                    *)
ProbeOutcomes == {"ok", "error"}

(* Mutant: the probe lets the exception of the awaited call through. *)
_check_broker_health_raising(outcome) ==
    IF outcome = "ok" THEN "true" ELSE "raised"

(* lines 468-474: True, or False when the awaited call raised an Exception *)
_check_broker_health(outcome) ==
    IF outcome = "ok" THEN "true" ELSE "false"

(* lines 442-455, on the endpoint "broker": health_ok is "true" or "false", *)
(* "raised" is the except branch.                                           *)
ProbeUpdate(broker, health_ok) ==
    CASE health_ok = "true" ->
            [broker EXCEPT !.status = "connected", !.last_heartbeat = now]
      [] health_ok = "false" ->
            [broker EXCEPT
                !.status = IF @ = "connected" THEN "degraded" ELSE @,
                !.last_heartbeat = now]
      [] OTHER -> [broker EXCEPT !.status = "disconnected"]

(* The names of the registered venues. *)
Registered(bs) == {bs[i].name : i \in 1..Len(bs)}

(* The iterator handing out item pos of the dict it was created over. *)
IteratorAt(bs, pos, size, registered, retry) ==
    [pos |-> pos, size |-> size, name |-> bs[pos].name, stale |-> FALSE,
     registered |-> registered, retry |-> retry]

(* Mutant: an iteration that raised ends the loop. *)
AfterPassStopping(raised) == IF raised THEN "done" ELSE "sleep"

(* lines 424-432: after a pass the loop sleeps one interval, in the try     *)
(* when the pass returned and in the handler of Exception when it raised.   *)
AfterPass(raised) == IF raised THEN "error_sleep" ELSE "sleep"

(* line 426, reached when the task first runs and when either sleep is      *)
(* over; line 438 creates the iterator and takes its first item, line 442   *)
(* suspends in the probe.  An empty dict ends the pass at once.             *)
begin_pass ==
    /\ health_pc \in {"created", "sleep", "error_sleep"}
    /\ ~health_cancel
    /\ health_pass' = 1 - health_pass
    /\ health_probed' = {}
    /\ IF brokers = << >>
       THEN /\ health_pc' = AfterPass(FALSE)
            /\ health_iter' = NoIterator
       ELSE /\ health_pc' = "probe"
            /\ health_iter' = IteratorAt(brokers, 1, Len(brokers),
                                         Registered(brokers),
                                         health_pc = "error_sleep")
    /\ UNCHANGED <<health_check_task, health_cancel>>

BeginPass ==
    /\ begin_pass
    /\ UNCHANGED brokers
    /\ HealthFrame

(* lines 442-455 and back to line 438.  The probe returns or raises, the    *)
(* endpoint held in "broker" is updated (no registered venue is when that   *)
(* object has left self.brokers), and the iterator is asked for the next    *)
(* item: it raises RuntimeError when the dict has changed size since the    *)
(* iterator was created.                                                    *)
probe_done(health_ok) ==
    LET updated == IF health_iter.stale THEN brokers
                   ELSE [brokers EXCEPT ![IndexOf(brokers, health_iter.name)] =
                                            ProbeUpdate(@, health_ok)]
    IN  /\ brokers' = updated
        /\ health_probed' = health_probed \cup {health_iter.name}
        /\ IF Len(brokers) # health_iter.size
           THEN /\ health_pc' = AfterPass(TRUE)
                /\ health_iter' = NoIterator
           ELSE IF health_iter.pos < health_iter.size
           THEN /\ health_pc' = "probe"
                /\ health_iter' = IteratorAt(brokers, health_iter.pos + 1,
                                             health_iter.size,
                                             health_iter.registered,
                                             health_iter.retry)
           ELSE /\ health_pc' = AfterPass(FALSE)
                /\ health_iter' = NoIterator
        /\ UNCHANGED <<health_check_task, health_pass>>

ProbeDone(outcome) ==
    /\ health_pc = "probe"
    /\ ~health_cancel
    /\ probe_done(_check_broker_health(outcome))
    /\ UNCHANGED health_cancel
    /\ HealthFrame

(* Mutant: CancelledError as a subclass of Exception. *)
ExceptExceptionCatchesAll(exception) == TRUE

(* "except Exception" does not catch asyncio.CancelledError, which derives  *)
(* from BaseException.                                                      *)
ExceptExceptionCatches(exception) == exception # "CancelledError"

(* The CancelledError thrown into the loop where it is suspended.  In the   *)
(* probe (line 471) it passes the handlers of lines 473 and 453 and is      *)
(* caught at line 428; in the sleep of line 427 it is caught at line 428;   *)
(* in the sleep of line 432, inside the handler, it ends the coroutine.  A  *)
(* task cancelled before it first runs never runs.                          *)
cancelled ==
    /\ health_cancel
    /\ health_pc \in {"created", "probe", "sleep", "error_sleep"}
    /\ IF health_pc = "probe" /\ ExceptExceptionCatches("CancelledError")
       THEN /\ probe_done("false")
            /\ health_cancel' = FALSE
       ELSE /\ health_pc' = "done"
            /\ health_cancel' = FALSE
            /\ UNCHANGED <<brokers, health_check_task, health_iter,
                           health_probed, health_pass>>

Cancelled ==
    /\ cancelled
    /\ HealthFrame

(* A direct call _select_broker(available_brokers, order), as the tests    *)
(* make it: the list is the caller's, no load is touched.  The call is      *)
(* logged with the strategy in force and the index around it.               *)
LastOf(log, entry, n) ==
    LET all == Append(log, entry)
    IN  IF Len(all) > n THEN SubSeq(all, Len(all) - n + 1, Len(all)) ELSE all

SelectBroker(available_brokers, order_id) ==
    /\ IF available_brokers = << >>
       THEN /\ UNCHANGED round_robin_index
            /\ selections' =
                  LastOf(selections,
                         [brokers |-> available_brokers,
                          strategy |-> routing_strategy,
                          selected |-> None,
                          index_before |-> round_robin_index],
                         MaxSelections)
       ELSE LET sel == _select_broker(brokers, available_brokers, order_id)
            IN  /\ round_robin_index' = sel.index
                /\ selections' =
                      LastOf(selections,
                             [brokers |-> available_brokers,
                              strategy |-> routing_strategy,
                              selected |-> Some(sel.selected),
                              index_before |-> round_robin_index],
                             MaxSelections)
    /\ UNCHANGED <<brokers, routing_history, routing_strategy, failover_cache,
                   route_result, failure_raised, completed, floor_hit>>
    /\ UNCHANGED <<riskVars, reconVars, pipelineVars, apiVars, healthVars>>

----------------------------------------------------------------------------
(* ReconciliationService *)

TolerancePricePerMille == 1      \* self.tolerance_price = 0.001
ToleranceQuantity == 1           \* self.tolerance_quantity = 0.01
MaxReconciliationAge == 86400    \* timedelta(hours=24), in seconds

(* The fields of an OrderFill the service reads. *)
OrderFill(order_id, quantity, price, timestamp, execution_id) ==
    [order_id |-> order_id, quantity |-> quantity, price |-> price,
     timestamp |-> timestamp, execution_id |-> execution_id]

(* self.pending_orders is a dict: a sequence of entries in insertion order, *)
(* one per order id.                                                        *)
HasPending(po, order_id) == \E i \in 1..Len(po) : po[i].id = order_id
PendingIndex(po, order_id) == CHOOSE i \in 1..Len(po) : po[i].id = order_id

(* The value submit_order and record_fill store under an order id. *)
PendingEntry(order_id, order) ==
    [id |-> order_id, order |-> order, submitted_at |-> now,
     fills |-> << >>, status |-> "pending"]

(* pending_orders[order_id] = value *)
SetPending(po, order_id, value) ==
    IF HasPending(po, order_id)
    THEN [po EXCEPT ![PendingIndex(po, order_id)] = value]
    ELSE Append(po, value)

RECURSIVE SumQuantity(_)
SumQuantity(fills) ==
    IF fills = << >> THEN 0
    ELSE Head(fills).quantity + SumQuantity(Tail(fills))

RECURSIVE SumValue(_)
SumValue(fills) ==
    IF fills = << >> THEN 0
    ELSE Head(fills).quantity * Head(fills).price + SumValue(Tail(fills))

(* A record keeps the list object it was given.  "shared" says that this    *)
(* object is still pending_orders[order_id]["fills"], so that a fill        *)
(* appended there shows in the record.                                      *)
AppendShared(records, order_id, fill) ==
    [k \in 1..Len(records) |->
        IF records[k].order_id = order_id /\ records[k].shared
        THEN [records[k] EXCEPT !.fills = Append(@, fill)]
        ELSE records[k]]

(* pending_orders[order_id]["fills"] is bound to a new list object. *)
Unshare(records, order_id) ==
    [k \in 1..Len(records) |->
        IF records[k].order_id = order_id
        THEN [records[k] EXCEPT !.shared = FALSE]
        ELSE records[k]]

(* "expected_price and average_fill_price": both set and non-zero. *)
Truthy(optional_number) ==
    optional_number # None /\ optional_number[1] # 0

(* abs(average_fill_price - expected_price) / expected_price               *)
(*    > self.tolerance_price, the average being total_value /               *)
(* filled_quantity: both sides multiplied by 1000 * expected_price *        *)
(* abs(filled_quantity), the integer part taken on the right.               *)
PriceMismatch(expected_price, total_value, filled_quantity) ==
    /\ expected_price > 0
    /\ Abs(total_value - expected_price * filled_quantity)
          > (TolerancePricePerMille * expected_price * Abs(filled_quantity))
               \div 1000

(* lines 184-198 *)
Discrepancies(expected_quantity, filled_quantity, expected_price, fills) ==
    (IF Abs(filled_quantity - expected_quantity) > ToleranceQuantity
     THEN <<"quantity_mismatch">> ELSE << >>)
    \o
    (IF /\ Truthy(expected_price)
        /\ fills # << >>
        /\ SumValue(fills) # 0
        /\ PriceMismatch(expected_price[1], SumValue(fills), filled_quantity)
     THEN <<"price_mismatch">> ELSE << >>)

(* Mutant: every record with discrepancies is partial. *)
StatusOfAlwaysPartial(discrepancies, filled_quantity) ==
    IF discrepancies = << >> THEN "matched" ELSE "partial"

(* lines 200-206 *)
StatusOf(discrepancies, filled_quantity) ==
    IF discrepancies = << >> THEN "matched"
    ELSE IF filled_quantity = 0 THEN "unmatched"
    ELSE "partial"

(* lines 173-220: the record _create_reconciliation_record builds, None     *)
(* when "total_value / filled_quantity" raises ZeroDivisionError.           *)
ReconciliationRecord(order_id, order, fills, reconciliation_type) ==
    LET expected_quantity == order.qty
        filled_quantity == SumQuantity(fills)
        expected_price == order.price
        discrepancies == Discrepancies(expected_quantity, filled_quantity,
                                       expected_price, fills)
    IN  IF fills # << >> /\ filled_quantity = 0 THEN None
        ELSE Some([order_id |-> order_id,
                   expected_quantity |-> expected_quantity,
                   filled_quantity |-> filled_quantity,
                   expected_price |-> expected_price,
                   average_fill_price |->
                       IF fills # << >>
                       THEN Some(<<SumValue(fills), filled_quantity>>)
                       ELSE None,
                   status |-> StatusOf(discrepancies, filled_quantity),
                   reconciliation_type |-> reconciliation_type,
                   timestamp |-> now,
                   discrepancies |-> discrepancies,
                   fills |-> fills,
                   shared |-> TRUE])

(* One invocation of an alert callback with the message of the record. *)
AlertCall(i, record) ==
    [callback |-> i, outcome |-> alert_callbacks[i],
     order_id |-> record.order_id, status |-> record.status,
     discrepancies |-> record.discrepancies,
     expected_quantity |-> record.expected_quantity,
     filled_quantity |-> record.filled_quantity]

(* Mutant: the try is around the loop, a raising callback ends it. *)
RECURSIVE AlertCallbacksUntilRaise(_, _)
AlertCallbacksUntilRaise(i, record) ==
    IF i > Len(alert_callbacks) THEN << >>
    ELSE IF alert_callbacks[i] = "raise" THEN <<AlertCall(i, record)>>
    ELSE <<AlertCall(i, record)>> \o AlertCallbacksUntilRaise(i + 1, record)

(* _alert_discrepancy, lines 379-383: the callbacks from the i-th on, each  *)
(* in its own try.                                                          *)
RECURSIVE AlertCallbacks(_, _)
AlertCallbacks(i, record) ==
    IF i > Len(alert_callbacks) THEN << >>
    ELSE <<AlertCall(i, record)>> \o AlertCallbacks(i + 1, record)

_alert_discrepancy(record) == AlertCallbacks(1, record)

(* The service as the operations thread it: st.pending, st.records,         *)
(* st.alerts (the callback invocations so far) and st.raised.               *)
ServiceState ==
    [pending |-> pending_orders, records |-> reconciliation_records,
     alerts |-> << >>, raised |-> FALSE]

_create_reconciliation_record(st, order_id, order, fills, reconciliation_type) ==
    LET built == ReconciliationRecord(order_id, order, fills,
                                      reconciliation_type)
    IN  IF built = None THEN [st EXCEPT !.raised = TRUE]
        ELSE [st EXCEPT !.records = Append(@, built[1]),
                        !.alerts = IF built[1].discrepancies # << >>
                                   THEN @ \o _alert_discrepancy(built[1])
                                   ELSE @]

(* lines 96-102 *)
submit_order(order) ==
    /\ pending_orders' =
          SetPending(pending_orders, order.id, PendingEntry(order.id, Some(order)))
    /\ reconciliation_records' = Unshare(reconciliation_records, order.id)
    /\ UNCHANGED fills_by_order

SubmitOrder(order) ==
    /\ submit_order(order)
    /\ alerts' = << >>
    /\ recon_raised' = FALSE
    /\ UNCHANGED <<alert_callbacks, suspended, finished>>
    /\ UNCHANGED <<riskVars, routerVars, selectVars, pipelineVars, apiVars, healthVars>>

(* line 149: abs(filled_quantity - expected_quantity) < tolerance_quantity *)
FullyFilled(filled_quantity, expected_quantity) ==
    Abs(filled_quantity - expected_quantity) < ToleranceQuantity

(* lines 135-155 *)
_reconcile_order_real_time(st, order_id) ==
    IF ~HasPending(st.pending, order_id) THEN st
    ELSE LET i == PendingIndex(st.pending, order_id)
             order_record == st.pending[i]
             order == order_record.order
             fills == order_record.fills
         IN  IF order = None THEN st
             ELSE LET expected_quantity == order[1].qty
                      filled_quantity == SumQuantity(fills)
                  IN  IF FullyFilled(filled_quantity, expected_quantity)
                      THEN _create_reconciliation_record(
                               [st EXCEPT !.pending[i].status = "matched"],
                               order_id, order[1], fills, "real_time")
                      ELSE IF filled_quantity > 0
                      THEN [st EXCEPT !.pending[i].status = "partial"]
                      ELSE st

(* lines 111-126: the service after the call, with the callback            *)
(* invocations the call makes                                               *)
FillRecorded(fill) ==
    LET order_id == fill.order_id
        known == IF HasPending(pending_orders, order_id) THEN pending_orders
                 ELSE Append(pending_orders, PendingEntry(order_id, None))
        i == PendingIndex(known, order_id)
        appended == [ServiceState EXCEPT
                        !.pending = [known EXCEPT ![i].fills = Append(@, fill)],
                        !.records = AppendShared(@, order_id, fill)]
    IN  _reconcile_order_real_time(appended, order_id)

(* lines 111-126 *)
record_fill(fill) ==
    LET order_id == fill.order_id
        st == FillRecorded(fill)
    IN  /\ fills_by_order' = [fills_by_order EXCEPT ![order_id] = Append(@, fill)]
        /\ pending_orders' = st.pending
        /\ reconciliation_records' = st.records
        /\ alerts' = st.alerts
        /\ recon_raised' = st.raised

RecordFill(fill) ==
    /\ record_fill(fill)
    /\ UNCHANGED <<alert_callbacks, suspended, finished>>
    /\ UNCHANGED <<riskVars, routerVars, selectVars, pipelineVars, apiVars, healthVars>>

(* lines 385-392 *)
add_alert_callback(callback) ==
    alert_callbacks' = Append(alert_callbacks, callback)

AddAlertCallback(callback) ==
    /\ add_alert_callback(callback)
    /\ alerts' = << >>
    /\ recon_raised' = FALSE
    /\ UNCHANGED <<pending_orders, fills_by_order, reconciliation_records>>
    /\ UNCHANGED <<suspended, finished>>
    /\ UNCHANGED <<riskVars, routerVars, selectVars, pipelineVars, apiVars, healthVars>>

(* "fill.execution_id or f'{order_id}_{timestamp}_{quantity}_{price}'":    *)
(* the execution id when there is one (and it is not the empty string),     *)
(* else the composite key.                                                  *)
ExecutionKey(fill) ==
    IF fill.execution_id # None /\ fill.execution_id[1] # ""
    THEN [execution_id |-> fill.execution_id[1], order_id |-> "",
          timestamp |-> 0, quantity |-> 0, price |-> 0]
    ELSE [execution_id |-> "", order_id |-> fill.order_id,
          timestamp |-> fill.timestamp, quantity |-> fill.quantity,
          price |-> fill.price]

(* lines 315-328: the loop of _deduplicate_fills over the rest of the list *)
RECURSIVE Deduplicate(_, _)
Deduplicate(fills, seen_executions) ==
    IF fills = << >> THEN << >>
    ELSE LET execution_key == ExecutionKey(Head(fills))
         IN  IF execution_key \notin seen_executions
             THEN <<Head(fills)>>
                     \o Deduplicate(Tail(fills),
                                    seen_executions \union {execution_key})
             ELSE Deduplicate(Tail(fills), seen_executions)

(* Mutant: every fill is kept. *)
_deduplicate_fills_keeping_all(fills) == fills

_deduplicate_fills(fills) == Deduplicate(fills, {})

(* A trade of a broker statement: the keys the service reads. *)
Trade(client_order_id, order_id, quantity, price, timestamp, execution_id) ==
    [client_order_id |-> client_order_id, order_id |-> order_id,
     quantity |-> quantity, price |-> price, timestamp |-> timestamp,
     execution_id |-> execution_id]

(* trade.get("client_order_id") or trade.get("order_id") *)
TradeOrderId(trade) ==
    IF trade.client_order_id # None /\ trade.client_order_id[1] # ""
    THEN trade.client_order_id
    ELSE trade.order_id

(* lines 237-243: broker_trades_by_order, its keys in insertion order. *)
RECURSIVE GroupedIds(_, _)
GroupedIds(broker_statement, ids) ==
    IF broker_statement = << >> THEN ids
    ELSE LET order_id == TradeOrderId(Head(broker_statement))
         IN  IF order_id # None /\ order_id[1] # ""
                /\ order_id[1] \notin Range(ids)
             THEN GroupedIds(Tail(broker_statement), Append(ids, order_id[1]))
             ELSE GroupedIds(Tail(broker_statement), ids)

TradesOf(broker_statement, order_id) ==
    LET OfOrder(trade) == TradeOrderId(trade) = Some(order_id)
    IN  SelectSeq(broker_statement, OfOrder)

(* Mutant: the end-of-day pass stores the status of its record in the      *)
(* tracked entry.                                                           *)
_reconcile_with_broker_statement_tracking(st, order_id, broker_trades) ==
    LET i == PendingIndex(st.pending, order_id)
        order_record == st.pending[i]
        order == order_record.order
        broker_fills ==
            [k \in 1..Len(broker_trades) |->
                OrderFill(order_id, broker_trades[k].quantity,
                          broker_trades[k].price, broker_trades[k].timestamp,
                          broker_trades[k].execution_id)]
        unique_fills == _deduplicate_fills(order_record.fills \o broker_fills)
        built == ReconciliationRecord(order_id, order[1], unique_fills,
                                      "end_of_day")
    IN  IF order = None THEN st
        ELSE _create_reconciliation_record(
                 [st EXCEPT !.pending[i].fills = unique_fills,
                            !.pending[i].status =
                                IF built = None THEN @ ELSE built[1].status,
                            !.records = Unshare(@, order_id)],
                 order_id, order[1], unique_fills, "end_of_day")

(* lines 271-303 *)
_reconcile_with_broker_statement(st, order_id, broker_trades) ==
    LET i == PendingIndex(st.pending, order_id)
        order_record == st.pending[i]
        order == order_record.order
        broker_fills ==
            [k \in 1..Len(broker_trades) |->
                OrderFill(order_id, broker_trades[k].quantity,
                          broker_trades[k].price, broker_trades[k].timestamp,
                          broker_trades[k].execution_id)]
        all_fills == order_record.fills \o broker_fills
        unique_fills == _deduplicate_fills(all_fills)
    IN  IF order = None THEN st
        ELSE _create_reconciliation_record(
                 [st EXCEPT !.pending[i].fills = unique_fills,
                            !.records = Unshare(@, order_id)],
                 order_id, order[1], unique_fills, "end_of_day")

(* lines 342-360 *)
_handle_unmatched_broker_trade(st, order_id, broker_trades) ==
    LET record == [order_id |-> order_id,
                   expected_quantity |-> 0,
                   filled_quantity |-> SumQuantity(broker_trades),
                   expected_price |-> None,
                   average_fill_price |-> None,
                   status |-> "unmatched",
                   reconciliation_type |-> "end_of_day",
                   timestamp |-> now,
                   discrepancies |-> <<"no_matching_order">>,
                   fills |-> << >>,
                   shared |-> FALSE]
    IN  [st EXCEPT !.records = Append(@, record),
                   !.alerts = @ \o _alert_discrepancy(record)]

(* lines 245-251: the loop over self.pending_orders, from the i-th entry;   *)
(* an exception ends the call.                                              *)
RECURSIVE ReconcilePending(_, _, _)
ReconcilePending(i, st, broker_statement) ==
    IF i > Len(st.pending) \/ st.raised THEN st
    ELSE IF st.pending[i].status = "matched"
    THEN ReconcilePending(i + 1, st, broker_statement)
    ELSE ReconcilePending(
             i + 1,
             _reconcile_with_broker_statement(
                 st, st.pending[i].id,
                 TradesOf(broker_statement, st.pending[i].id)),
             broker_statement)

(* An entry of pending_orders whose "order" is set: submit_order has run  *)
(* for the id (line 96), a placeholder of record_fill has order None.      *)
IsSubmitted(po, order_id) ==
    HasPending(po, order_id) /\ po[PendingIndex(po, order_id)].order # None

(* lines 254-256: "order_id not in all_order_ids" negated *)
IsLocalOrder(po, order_id) == HasPending(po, order_id)

(* lines 255-257: the loop over broker_trades_by_order, from the k-th key *)
RECURSIVE ReconcileUnmatched(_, _, _, _)
ReconcileUnmatched(k, ids, st, broker_statement) ==
    IF k > Len(ids) THEN st
    ELSE IF IsLocalOrder(st.pending, ids[k])
    THEN ReconcileUnmatched(k + 1, ids, st, broker_statement)
    ELSE ReconcileUnmatched(
             k + 1, ids,
             _handle_unmatched_broker_trade(
                 st, ids[k], TradesOf(broker_statement, ids[k])),
             broker_statement)

(* lines 228-257 *)
ReconcileAll(st, broker_statement) ==
    LET reconciled == ReconcilePending(1, st, broker_statement)
    IN  IF reconciled.raised THEN reconciled
        ELSE ReconcileUnmatched(1, GroupedIds(broker_statement, << >>),
                                reconciled, broker_statement)

reconcile_end_of_day(broker_statement) ==
    LET st == ReconcileAll(ServiceState, broker_statement)
    IN  /\ pending_orders' = st.pending
        /\ reconciliation_records' = st.records
        /\ alerts' = st.alerts
        /\ recon_raised' = st.raised
        /\ UNCHANGED fills_by_order

ReconcileEndOfDay(broker_statement) ==
    /\ reconcile_end_of_day(broker_statement)
    /\ UNCHANGED <<alert_callbacks, suspended, finished>>
    /\ UNCHANGED <<riskVars, routerVars, selectVars, pipelineVars, apiVars, healthVars>>

(* lines 415-418: the ids, in dict order, whose tracked status is unmatched *)
(* or failed.                                                               *)
get_unmatched_orders ==
    LET Unmatched(entry) == entry.status \in {"unmatched", "failed"}
        found == SelectSeq(pending_orders, Unmatched)
    IN  [k \in 1..Len(found) |-> found[k].id]

(* ---- Calls that overlap.  A coroutine of the service gives up control   *)
(* only at line 381, "await callback(alert_message)": everything else it    *)
(* awaits is a coroutine of the service itself.  While it is suspended      *)
(* there the event loop may run other calls.                                *)

(* Where reconcile_end_of_day stands: the loop it is in (line 246 or line   *)
(* 255), the position of the loop's iterator, the size of pending_orders    *)
(* when the iterator of line 246 was created, all_order_ids of line 254,    *)
(* the order id whose record is being alerted, and what the pass was to     *)
(* reconcile and has reconciled.                                            *)
Pass(phase, pos, size, all_order_ids, current, expected, reconciled) ==
    [phase |-> phase, pos |-> pos, size |-> size,
     all_order_ids |-> all_order_ids, current |-> current,
     expected |-> expected, reconciled |-> reconciled]

NoPass == Pass("none", 0, 0, {}, "", {}, {})

(* A suspended coroutine: the call, the callback invocations still to make  *)
(* after the one it is suspended in, and whether another call for the same  *)
(* order id has run since.                                                  *)
Frame(op, arg, todo, pass) ==
    [op |-> op, arg |-> arg, todo |-> todo, pass |-> pass,
     overlapped |-> FALSE]

(* How a call ended. *)
Outcome(op, arg, error, pass, overlapped) ==
    [op |-> op, arg |-> arg, error |-> error, expected |-> pass.expected,
     reconciled |-> pass.reconciled, overlapped |-> overlapped]

PendingIds(po) == {po[i].id : i \in 1..Len(po)}

(* The ids reconcile_end_of_day has to write a record for: the submitted    *)
(* orders not yet matched, and the ids of the statement that are not        *)
(* tracked.                                                                 *)
ToReconcile(po, broker_statement) ==
    {po[i].id : i \in {j \in 1..Len(po) :
                          po[j].order # None /\ po[j].status # "matched"}}
    \union (Range(GroupedIds(broker_statement, << >>)) \ PendingIds(po))

(* lines 245-257 from where the pass stands to its next suspension, its     *)
(* return or its exception.  "for ... in self.pending_orders.items()"       *)
(* raises RuntimeError when the dict has changed size since the iterator    *)
(* was created.                                                             *)
RECURSIVE RunPass(_, _, _)
RunPass(st, pass, broker_statement) ==
    IF pass.phase = "pending"
    THEN IF Len(st.pending) # pass.size
         THEN [st |-> st, pass |-> pass, error |-> "RuntimeError"]
         ELSE IF pass.pos > pass.size
         THEN RunPass(st, [pass EXCEPT !.phase = "unmatched", !.pos = 1,
                                       !.all_order_ids = PendingIds(st.pending)],
                      broker_statement)
         ELSE IF st.pending[pass.pos].status = "matched"
         THEN RunPass(st, [pass EXCEPT !.pos = @ + 1], broker_statement)
         ELSE LET order_id == st.pending[pass.pos].id
                  after == _reconcile_with_broker_statement(
                               st, order_id, TradesOf(broker_statement, order_id))
                  next == [pass EXCEPT !.pos = @ + 1, !.current = order_id,
                                       !.reconciled = @ \union {order_id}]
              IN  IF after.raised
                  THEN [st |-> after, pass |-> pass,
                        error |-> "ZeroDivisionError"]
                  ELSE IF after.alerts # << >>
                  THEN [st |-> after, pass |-> next, error |-> "none"]
                  ELSE RunPass(after, next, broker_statement)
    ELSE LET ids == GroupedIds(broker_statement, << >>)
         IN  IF pass.pos > Len(ids)
             THEN [st |-> st, pass |-> [pass EXCEPT !.phase = "returned"],
                   error |-> "none"]
             ELSE IF ids[pass.pos] \in pass.all_order_ids
             THEN RunPass(st, [pass EXCEPT !.pos = @ + 1], broker_statement)
             ELSE LET order_id == ids[pass.pos]
                      after == _handle_unmatched_broker_trade(
                                   st, order_id,
                                   TradesOf(broker_statement, order_id))
                      next == [pass EXCEPT !.pos = @ + 1, !.current = order_id,
                                           !.reconciled = @ \union {order_id}]
                  IN  IF after.alerts # << >>
                      THEN [st |-> after, pass |-> next, error |-> "none"]
                      ELSE RunPass(after, next, broker_statement)

(* A call for the order id runs: the coroutines suspended on that id have   *)
(* been overlapped.                                                         *)
Overlap(frames, order_id) ==
    [k \in 1..Len(frames) |->
        IF frames[k].op = "record_fill" /\ frames[k].arg.order_id = order_id
        THEN [frames[k] EXCEPT !.overlapped = TRUE]
        ELSE frames[k]]

RemoveAt(seq, k) ==
    [j \in 1..(Len(seq) - 1) |-> IF j < k THEN seq[j] ELSE seq[j + 1]]

(* The coroutine frames[k], or a new one when k = 0, has run to run.st: it  *)
(* is suspended in the first callback of run.st.alerts, or it is over.      *)
Settle(frames, k, op, arg, run, overlapped) ==
    /\ pending_orders' = run.st.pending
    /\ reconciliation_records' = run.st.records
    /\ recon_raised' = (run.error # "none")
    /\ IF run.error = "none" /\ run.st.alerts # << >>
       THEN /\ alerts' = <<Head(run.st.alerts)>>
            /\ suspended' =
                 LET frame == [Frame(op, arg, Tail(run.st.alerts), run.pass)
                                 EXCEPT !.overlapped = overlapped]
                 IN  IF k = 0 THEN Append(frames, frame)
                     ELSE [frames EXCEPT ![k] = frame]
            /\ UNCHANGED finished
       ELSE /\ alerts' = << >>
            /\ suspended' = IF k = 0 THEN frames ELSE RemoveAt(frames, k)
            /\ finished' = Append(finished,
                                  Outcome(op, arg, run.error, run.pass,
                                          overlapped))

(* record_fill as a call that may suspend: lines 111-126 and the record of  *)
(* lines 208-222 are done before the first callback is awaited.             *)
record_fill_call(fill) ==
    LET st == FillRecorded(fill)
        run == [st |-> st, pass |-> NoPass,
                error |-> IF st.raised THEN "ZeroDivisionError" ELSE "none"]
    IN  /\ fills_by_order' =
              [fills_by_order EXCEPT ![fill.order_id] = Append(@, fill)]
        /\ Settle(Overlap(suspended, fill.order_id), 0, "record_fill", fill,
                  run, FALSE)

RecordFillCall(fill) ==
    /\ record_fill_call(fill)
    /\ UNCHANGED alert_callbacks
    /\ UNCHANGED <<riskVars, routerVars, selectVars, pipelineVars, apiVars, healthVars>>

(* reconcile_end_of_day as a call that may suspend *)
reconcile_end_of_day_call(broker_statement) ==
    LET pass == Pass("pending", 1, Len(pending_orders), {}, "",
                     ToReconcile(pending_orders, broker_statement), {})
    IN  /\ Settle(suspended, 0, "reconcile_end_of_day", broker_statement,
                  RunPass(ServiceState, pass, broker_statement), FALSE)
        /\ UNCHANGED fills_by_order

ReconcileEndOfDayCall(broker_statement) ==
    /\ reconcile_end_of_day_call(broker_statement)
    /\ UNCHANGED alert_callbacks
    /\ UNCHANGED <<riskVars, routerVars, selectVars, pipelineVars, apiVars, healthVars>>

(* Mutant: record_fill stores the status it found once the callbacks are    *)
(* done.                                                                    *)
resume_record_fill_storing_status(st, fill) ==
    [st EXCEPT !.pending[PendingIndex(st.pending, fill.order_id)].status =
                   "matched"]

(* lines 380-383 and the return of record_fill: after the last callback     *)
(* the call changes nothing of the service.                                 *)
resume_record_fill(st, fill) == st

(* The callback the coroutine suspended[k] is in has returned or raised     *)
(* (lines 382-383 swallow an Exception): the next callback is called, or    *)
(* the call goes on after line 381.                                         *)
resume(k) ==
    LET frame == suspended[k]
    IN  /\ IF frame.todo # << >>
           THEN /\ alerts' = <<Head(frame.todo)>>
                /\ suspended' = [suspended EXCEPT ![k].todo = Tail(@)]
                /\ recon_raised' = FALSE
                /\ UNCHANGED <<pending_orders, reconciliation_records, finished>>
           ELSE IF frame.op = "record_fill"
           THEN Settle(suspended, k, frame.op, frame.arg,
                       [st |-> resume_record_fill(ServiceState, frame.arg),
                        pass |-> NoPass, error |-> "none"],
                       frame.overlapped)
           ELSE Settle(suspended, k, frame.op, frame.arg,
                       RunPass(ServiceState, frame.pass, frame.arg),
                       frame.overlapped)
        /\ UNCHANGED fills_by_order

Resume(k) ==
    /\ resume(k)
    /\ UNCHANGED alert_callbacks
    /\ UNCHANGED <<riskVars, routerVars, selectVars, pipelineVars, apiVars, healthVars>>

(* lines 469-470: "if not max_age" replaces a missing max age, and a max    *)
(* age of zero (timedelta(0) is falsy), by self.max_reconciliation_age.     *)
EffectiveMaxAge(max_age) ==
    IF max_age = None \/ max_age[1] = 0 THEN MaxReconciliationAge
    ELSE max_age[1]

(* lines 476-479: records with timestamp > cutoff_time are kept *)
KeptRecords(records, cutoff_time) ==
    SelectSeq(records, LAMBDA r : r.timestamp > cutoff_time)

(* lines 482-485: orders matched and submitted before cutoff_time *)
ToRemove(entry, cutoff_time) ==
    entry.status = "matched" /\ entry.submitted_at < cutoff_time

RECURSIVE UnshareAll(_, _, _)
UnshareAll(records, pending, cutoff_time) ==
    IF pending = << >> THEN records
    ELSE UnshareAll(IF ToRemove(Head(pending), cutoff_time)
                    THEN Unshare(records, Head(pending).id) ELSE records,
                    Tail(pending), cutoff_time)

(* lines 469-488; a record of a removed order keeps its own fill list *)
cleanup_old_records(max_age) ==
    LET cutoff_time == now - EffectiveMaxAge(max_age)
    IN  /\ reconciliation_records' =
              UnshareAll(KeptRecords(reconciliation_records, cutoff_time),
                         pending_orders, cutoff_time)
        /\ pending_orders' =
              SelectSeq(pending_orders,
                        LAMBDA entry : ~ToRemove(entry, cutoff_time))
        /\ UNCHANGED fills_by_order

CleanupOldRecords(max_age) ==
    /\ cleanup_old_records(max_age)
    /\ alerts' = << >>
    /\ recon_raised' = FALSE
    /\ UNCHANGED <<alert_callbacks, suspended, finished>>
    /\ UNCHANGED <<riskVars, routerVars, selectVars, pipelineVars, apiVars, healthVars>>

----------------------------------------------------------------------------
(* Pipeline coordinator: process_order of src/orchestrator/app.py *)

(* lines 114-133: "risk_result" is a literal, the RiskEngine is not called; *)
(* the only component called is order_router.route_order; the dict returned *)
(* is "rejected" without a venue and "accepted" with one, with a mock       *)
(* brokerOrderId: nothing is sent to the venue and                          *)
(* reconciliation.submit_order is not called.                               *)
process_order(order) ==
    /\ route_order(order)
    /\ stages' = <<"route">>
    /\ process_result' = IF route_result' = None THEN "rejected" ELSE "accepted"

ProcessOrder(order) ==
    /\ process_order(order)
    /\ completed' = completed \ {order.id}
    /\ UNCHANGED <<routing_strategy, failover_cache, failure_raised, floor_hit>>
    /\ UNCHANGED <<riskVars, selectVars, reconVars, apiVars, healthVars>>

(* lines 87-90.  No function of app.py calls persist_event: nothing ever    *)
(* appends to the events file.                                              *)
persist_event(event) == events' = Append(events, event)

(* OrderRequest, lines 53-61, with the fields the model's orders have *)
OrderRequest(clientOrderId, symbol, qty, price, side, type) ==
    [clientOrderId |-> clientOrderId, symbol |-> symbol, qty |-> qty,
     price |-> price, side |-> side, type |-> type]

(* line 155: x_idempotency_key or req.clientOrderId *)
IdempotencyOf(req, x_idempotency_key) ==
    IF x_idempotency_key # None /\ x_idempotency_key[1] # ""
    THEN x_idempotency_key ELSE req.clientOrderId

(* lines 160-166: the first OrderSubmitted line with this key, 0 without *)
SubmittedEvent(idempotency) ==
    LET found == {i \in 1..Len(events) :
                     /\ events[i].type = "OrderSubmitted"
                     /\ events[i].idempotency = idempotency}
    IN  IF found = {} THEN 0
        ELSE CHOOSE i \in found : \A j \in found : i <= j

(* line 174: f"int-{int(datetime.utcnow().timestamp()*1000)}" *)
InternalOrderId(t) == "int-" \o ToString(t * 1000)

(* What the caller of the endpoint gets: the "status", "reason" and         *)
(* "internalOrderId" keys of the dict returned (None for a key the dict     *)
(* does not have); status "http_400" stands for the HTTPException raised.   *)
Response(idempotency, status, reason, internalOrderId) ==
    [idempotency |-> idempotency, status |-> status, reason |-> reason,
     internalOrderId |-> internalOrderId]

(* lines 155-189, with the dicts process_order returns (lines 121-133) *)
create_order(req, x_idempotency_key) ==
    LET idempotency == IdempotencyOf(req, x_idempotency_key)
        order_data == Order(InternalOrderId(now), req.symbol, req.qty,
                            Some(req.price), req.side, req.type)
    IN  IF idempotency = None \/ idempotency[1] = ""
        THEN /\ responses' =
                   Append(responses,
                          Response(None, "http_400",
                                   Some("clientOrderId or X-Idempotency-Key required"),
                                   None))
             /\ UNCHANGED <<brokers, routing_history, round_robin_index,
                            route_result, completed, pipelineVars>>
        ELSE IF SubmittedEvent(idempotency[1]) # 0
        THEN /\ responses' =
                   Append(responses,
                          Response(idempotency, "duplicate", None,
                                   Some(events[SubmittedEvent(idempotency[1])]
                                            .internalOrderId)))
             /\ UNCHANGED <<brokers, routing_history, round_robin_index,
                            route_result, completed, pipelineVars>>
        ELSE /\ process_order(order_data)
             /\ completed' = completed \ {order_data.id}
             /\ responses' =
                   Append(responses,
                          IF route_result' = None
                          THEN Response(idempotency, "rejected",
                                        Some("No broker available"), None)
                          ELSE Response(idempotency, "accepted", None,
                                        Some(order_data.id)))

CreateOrder(req, x_idempotency_key) ==
    /\ create_order(req, x_idempotency_key)
    /\ UNCHANGED events
    /\ UNCHANGED <<routing_strategy, failover_cache, failure_raised, floor_hit>>
    /\ UNCHANGED <<riskVars, selectVars, reconVars, healthVars>>

----------------------------------------------------------------------------
(* RiskEngine: the inputs of the model *)

OrdSmall == Order("r1", EURUSD, 10, Some(1000), "buy", "limit")
OrdZeroPrice == Order("r2", EURUSD, 10, Some(0), "sell", "limit")
OrdMarket == Order("r3", EURUSD, 101, None, "buy", "market")
OrdPos == Order("r4", EURUSD, 40001, Some(1), "buy", "limit")
OrdBig == Order("r5", EURUSD, 100000, Some(11), "buy", "limit")
OrdNear == Order("r6", EURUSD, 10, Some(1040), "sell", "limit")

RiskOrders == {OrdSmall, OrdZeroPrice, OrdMarket, OrdPos, OrdBig, OrdNear}

MktLive == [mid |-> 1000, spread |-> 2]
MktNone == [mid |-> 0, spread |-> 0]      \* no "mid" in the market data
Markets == {MktLive, MktNone}

HistOrders == {OrdBig}
PositionUpdates == {<<EURUSD, 60000, "buy">>}
Accounts == {<<DefaultBalance, 0>>, <<100000, 0>>}
TickSteps == {60, 300}

InitRisk ==
    /\ now = 0
    /\ order_history = << >>
    /\ position_sizes = [s \in {EURUSD} |-> 0]
    /\ account_balance = DefaultBalance
    /\ margin_used = 0
    /\ circuit_breaker_active = FALSE
    /\ circuit_breaker_until = None
    /\ custom_checks = << >>
    /\ violations = << >>
    /\ ran = << >>
    /\ breaker_path = "none"
    /\ reject_times = << >>

InitRouter ==
    /\ brokers = << >>
    /\ routing_history = << >>
    /\ routing_strategy = "least_loaded"
    /\ round_robin_index = 0
    /\ failover_cache = [id \in OrderIds |-> << >>]
    /\ route_result = None
    /\ failure_raised = FALSE
    /\ completed = {}
    /\ floor_hit = FALSE

InitSelect == selections = << >>

InitRecon ==
    /\ pending_orders = << >>
    /\ fills_by_order = [id \in OrderIds |-> << >>]
    /\ reconciliation_records = << >>
    /\ alert_callbacks = << >>
    /\ alerts = << >>
    /\ recon_raised = FALSE
    /\ suspended = << >>
    /\ finished = << >>

InitPipeline ==
    /\ stages = << >>
    /\ process_result = "none"

(* app.py:49-51: no event has been written; order_router.py:80-81 *)
InitApi ==
    /\ events = << >>
    /\ responses = << >>

InitHealth ==
    /\ health_check_task = FALSE
    /\ health_pc = "idle"
    /\ health_iter = NoIterator
    /\ health_cancel = FALSE
    /\ health_probed = {}
    /\ health_pass = 0

Init ==
    /\ InitRisk /\ InitRouter /\ InitSelect /\ InitRecon /\ InitPipeline
    /\ InitApi /\ InitHealth

(* The evaluation model: every operation of the engine, at one instant. *)
NextRisk ==
    \/ \E o \in RiskOrders, m \in Markets :
          CheckOrder(o, m) /\ UNCHANGED reject_times
    \/ \E o \in HistOrders :
          Len(order_history) < MaxOrderHistory /\ UpdateOrderHistory(o)
    \/ \E u \in PositionUpdates :
          /\ Abs(position_sizes[u[1]]
                   + (IF u[3] = "buy" THEN u[2] ELSE -u[2])) <= MaxAbsPosition
          /\ UpdatePositions(u[1], u[2], u[3])
    \/ \E a \in Accounts : UpdateAccountBalance(a[1], a[2])
    \/ \E k \in CustomKinds :
          Len(custom_checks) < MaxCustom /\ AddCustomCheck(k)

SpecRisk == Init /\ [][NextRisk]_vars

(* The buying-power model: the account is set to balances of either sign   *)
(* and to 0, with margins from none to more than the balance, and the       *)
(* check is called on its own, at any time.                                 *)
Balances == {-10000, 0, 1000, 10000}
Margins == {0, 790, 8000, 8900, 9100}
BuyingPowerOrders == {OrdSmall, OrdZeroPrice, OrdMarket, OrdBig}

NextBuyingPower ==
    \/ \E b \in Balances, m \in Margins : UpdateAccountBalance(b, m)
    \/ \E o \in BuyingPowerOrders, m \in Markets : CheckBuyingPower(o, m)
    \/ \E dt \in TickSteps : now + dt <= MaxTime /\ Tick(dt)

SpecBuyingPower == Init /\ [][NextBuyingPower]_vars

(* The breaker model: evaluations, custom checks and six minutes of time. *)
NextBreaker ==
    \/ \E o \in {OrdSmall, OrdZeroPrice}, m \in {MktLive} :
          CheckOrder(o, m) /\ LogRejectTimes
    \/ \E k \in {"reject"} :
          Len(custom_checks) < MaxBreakerCustom /\ AddCustomCheck(k)
    \/ \E dt \in TickSteps : now + dt <= MaxTime /\ Tick(dt)

SpecBreaker == Init /\ [][NextBreaker]_vars

----------------------------------------------------------------------------
(* OrderRouter: the inputs of the model *)

(* The venues register_broker is called for: (name, priority,              *)
(* max_concurrent, capabilities).                                           *)
BrokerConfigs ==
    {<<"b1", 1, 10, {"forex"}>>,
     <<"b2", 1, 1, {"forex", "equities", "limit_orders"}>>}

(* The orders routed: every order id with each of these shapes. *)
RouteShapes == {<<EURUSD, "market">>, <<USDJPY, "limit">>, <<AAPL, "market">>}
RouteOrders ==
    {Order(id, sh[1], 1000, None, "buy", sh[2]) : id \in OrderIds, sh \in RouteShapes}

(* The router model.  Venues are registered once; the strategy is chosen    *)
(* before the first order is routed; an order id is routed once.            *)
NextRouter ==
    \/ \E c \in BrokerConfigs :
          ~HasBroker(brokers, c[1]) /\ RegisterBroker(c[1], c[2], c[3], c[4])
    \/ \E st \in RoutingStrategies :
          routing_history = << >> /\ SetRoutingStrategy(st)
    \/ \E o \in RouteOrders : DecisionIndex(o.id) = 0 /\ RouteOrder(o)
    \/ \E id \in OrderIds, b \in BrokerNames :
          /\ DecisionIndex(id) # 0
          /\ routing_history[DecisionIndex(id)].failover_attempts < MaxFailovers
          /\ HandleRoutingFailure(id, b)
    \/ \E id \in OrderIds, b \in BrokerNames : CompleteOrder(id, b)

SpecRouter == Init /\ [][NextRouter]_vars

(* The router model with callers that follow the docstrings: complete_order *)
(* and handle_routing_failure are called for a routed order and name the    *)
(* venue recorded for it ("broker that handled the order", "broker that     *)
(* failed"), any number of times.                                           *)
RecordedVenue(id) == routing_history[DecisionIndex(id)].selected_broker

NextRouterCallers ==
    \/ \E c \in BrokerConfigs :
          ~HasBroker(brokers, c[1]) /\ RegisterBroker(c[1], c[2], c[3], c[4])
    \/ \E st \in RoutingStrategies :
          routing_history = << >> /\ SetRoutingStrategy(st)
    \/ \E o \in RouteOrders : DecisionIndex(o.id) = 0 /\ RouteOrder(o)
    \/ \E id \in OrderIds :
          /\ DecisionIndex(id) # 0
          /\ routing_history[DecisionIndex(id)].failover_attempts < MaxFailovers
          /\ HandleRoutingFailure(id, RecordedVenue(id))
    \/ \E id \in OrderIds :
          DecisionIndex(id) # 0 /\ CompleteOrder(id, RecordedVenue(id))

SpecRouterCallers == Init /\ [][NextRouterCallers]_vars

(* The selection model: direct _select_broker calls on lists of           *)
(* registered venues, under round_robin and least_loaded.                   *)
SelectConfigs == BrokerConfigs \union {<<"b3", 2, 5, {"forex"}>>}
SelectLists ==
    {<<"b1">>, <<"b1", "b2">>, <<"b2", "b3", "b1">>, <<"b1", "b2", "b3">>}
SelectStrategies == {"round_robin", "least_loaded"}

NextSelect ==
    \/ \E c \in SelectConfigs :
          ~HasBroker(brokers, c[1]) /\ RegisterBroker(c[1], c[2], c[3], c[4])
    \/ \E st \in SelectStrategies : SetRoutingStrategy(st)
    \/ \E names \in SelectLists, id \in {"o1"} :
          /\ \A i \in 1..Len(names) : HasBroker(brokers, names[i])
          /\ SelectBroker(names, id)

SpecSelect == Init /\ [][NextSelect]_vars

(* The rerouting model: an order is routed again under the same id after   *)
(* a failover or a completion; a degraded venue is unregistered and         *)
(* registered again, which puts it at the end of self.brokers, connected    *)
(* and without load; failures are reported for the venue recorded for the   *)
(* order, and also for an order that was never routed.                      *)
RerouteConfigs ==
    {<<"b1", 1, 10, {"forex"}>>, <<"b2", 1, 10, {"forex"}>>,
     <<"b3", 2, 10, {"forex"}>>}
RerouteOrders == {Order("o1", EURUSD, 1000, None, "buy", "market")}
RerouteStrategies == {"failover"}

(* The failovers made so far, over all decisions. *)
FailoversDone ==
    SumOver([i \in 1..Len(routing_history) |->
                routing_history[i].failover_attempts],
            1..Len(routing_history))

NextReroute ==
    \/ \E c \in RerouteConfigs :
          ~HasBroker(brokers, c[1]) /\ RegisterBroker(c[1], c[2], c[3], c[4])
    \/ \E b \in BrokerNames :
          /\ HasBroker(brokers, b)
          /\ Broker(brokers, b).status = "degraded"
          /\ UnregisterBroker(b)
    \/ \E st \in RerouteStrategies :
          routing_history = << >> /\ SetRoutingStrategy(st)
    \/ \E o \in RerouteOrders :
          Len(routing_history) < MaxRoutes /\ RouteOrder(o)
    \/ \E o \in RerouteOrders :
          /\ DecisionIndex(o.id) # 0
          /\ FailoversDone < MaxAttempts
          /\ HandleRoutingFailure(o.id, RecordedVenue(o.id))
    \/ \E id \in OrderIds, b \in BrokerNames :
          DecisionIndex(id) = 0 /\ HandleRoutingFailure(id, b)
    \/ \E o \in RerouteOrders :
          DecisionIndex(o.id) # 0 /\ CompleteOrder(o.id, RecordedVenue(o.id))

SpecReroute == Init /\ [][NextReroute]_vars

(* The health model: venues are registered, registered again and           *)
(* unregistered, an order is routed and five minutes pass while the health *)
(* task runs, is stopped and is started again.  While a pass is suspended   *)
(* in a probe the dict changes size at most once (what the iterator does    *)
(* once the size is back is left to the dict implementation).               *)
HealthConfigs ==
    {<<"b1", 1, 10, {"forex"}>>, <<"b2", 1, 10, {"forex"}>>}
HealthOrders == {Order("o1", EURUSD, 1000, None, "buy", "market")}
HeartbeatTick == 300
SizeKept == health_pc = "probe" => Len(brokers) = health_iter.size

HealthLoopStep ==
    \/ BeginPass
    \/ \E outcome \in ProbeOutcomes : ProbeDone(outcome)
    \/ Cancelled

NextHealth ==
    \/ \E c \in HealthConfigs :
          /\ HasBroker(brokers, c[1]) \/ SizeKept
          /\ RegisterBroker(c[1], c[2], c[3], c[4])
    \/ \E b \in BrokerNames :
          HasBroker(brokers, b) /\ SizeKept /\ UnregisterBroker(b)
    \/ \E o \in HealthOrders : routing_history = << >> /\ RouteOrder(o)
    \/ now + HeartbeatTick <= MaxTime /\ Tick(HeartbeatTick)
    \/ StartHealthMonitoring
    \/ StopHealthMonitoring
    \/ HealthLoopStep

SpecHealth == Init /\ [][NextHealth]_vars

(* The event loop runs a task that is ready, and a sleep ends: the steps    *)
(* of the health task are taken when they stay possible.                    *)
SpecHealthLive == SpecHealth /\ WF_vars(HealthLoopStep)

(* The routing-under-health model: two venues of capacity 1, orders routed  *)
(* between the steps of the health task.  route_order has no suspension     *)
(* point (lines 122-161 hold no await), so a call is one step.              *)
RouteHealthConfigs ==
    {<<"b1", 1, 1, {"forex"}>>, <<"b2", 1, 1, {"forex"}>>}

NextRouteHealth ==
    \/ \E c \in RouteHealthConfigs :
          /\ ~HasBroker(brokers, c[1]) /\ SizeKept
          /\ RegisterBroker(c[1], c[2], c[3], c[4])
    \/ \E o \in HealthOrders :
          Len(routing_history) < MaxRoutes /\ RouteOrder(o)
    \/ StartHealthMonitoring
    \/ StopHealthMonitoring
    \/ HealthLoopStep

SpecRouteHealth == Init /\ [][NextRouteHealth]_vars

(* The priority model: as the selection model, with a second configuration  *)
(* of b2 that shares the highest priority with b3, and the strategies that  *)
(* read the venues.                                                         *)
PriorityConfigs == SelectConfigs \union {<<"b2", 2, 1, {"forex"}>>}
PriorityStrategies == {"priority_based", "least_loaded"}

NextPriority ==
    \/ \E c \in PriorityConfigs :
          ~HasBroker(brokers, c[1]) /\ RegisterBroker(c[1], c[2], c[3], c[4])
    \/ \E st \in PriorityStrategies : SetRoutingStrategy(st)
    \/ \E names \in SelectLists, id \in {"o1"} :
          /\ \A i \in 1..Len(names) : HasBroker(brokers, names[i])
          /\ SelectBroker(names, id)

SpecPriority == Init /\ [][NextPriority]_vars

----------------------------------------------------------------------------
(* ReconciliationService: the inputs of the model *)

(* The orders submitted: 10.00 expected at a price of 1.1000, and 0.01     *)
(* expected without a price.                                                *)
ReconOrders ==
    {Order("o1", EURUSD, 1000, Some(11000), "buy", "limit"),
     Order("o2", EURUSD, 1, None, "buy", "market")}

(* The fills recorded, for either order id: (execution id, quantity,       *)
(* price).  5.00 at 1.1000, 5.00 at 1.1002, 0.02 at 1.1000 without an       *)
(* execution id, 5.00 at 1.1100.                                            *)
FillShapes ==
    {<<Some("e1"), 500, 11000>>, <<Some("e2"), 500, 11002>>,
     <<None, 2, 11000>>, <<Some("e3"), 500, 11100>>}

ReconFills ==
    {OrderFill(id, sh[2], sh[3], 1, sh[1]) : id \in OrderIds, sh \in FillShapes}

(* The real-time model: orders and fills arrive in any order, an order may  *)
(* be submitted again.                                                      *)
NextFills ==
    \/ \E o \in ReconOrders : SubmitOrder(o)
    \/ \E f \in ReconFills :
          Len(fills_by_order[f.order_id]) < MaxFills /\ RecordFill(f)

SpecFills == Init /\ [][NextFills]_vars

(* The statements reconciled at the end of the day.  Their trades: one      *)
(* that repeats execution e1 of order o1, one for o2 keyed by "order_id",   *)
(* one of quantity 0 for o2, one without any order id, two for an order id  *)
(* the service has never seen.                                              *)
TradeRepeated == Trade(Some("o1"), None, 500, 11000, 1, Some("e1"))
TradeOther == Trade(None, Some("o2"), 500, 11002, 1, Some("e2"))
TradeEmpty == Trade(None, Some("o2"), 0, 11000, 1, Some("e9"))
TradeAnonymous == Trade(None, None, 500, 11000, 1, Some("e5"))
TradeForeignA == Trade(Some("x1"), None, 300, 11000, 1, Some("e6"))
TradeForeignB == Trade(Some("x1"), None, 200, 11000, 1, Some("e7"))

Statements ==
    {<<TradeRepeated, TradeOther>>,
     <<TradeEmpty>>,
     <<TradeAnonymous, TradeForeignA, TradeForeignB>>}

EodFills ==
    {OrderFill("o1", 500, 11000, 1, Some("e1")),
     OrderFill("o1", 500, 11002, 1, Some("e2")),
     OrderFill("o2", 500, 11000, 1, Some("e1"))}

CallbackKinds == {"ok", "raise"}

(* The number of fills recorded so far, over all order ids. *)
FillsRecorded ==
    SumOver([id \in OrderIds |-> Len(fills_by_order[id])], OrderIds)

(* The number of end-of-day records written so far. *)
EndOfDayRecords ==
    Cardinality({k \in 1..Len(reconciliation_records) :
        reconciliation_records[k].reconciliation_type = "end_of_day"})

(* The end-of-day model: orders (each submitted once), fills, alert         *)
(* callbacks and end-of-day runs in any order.                              *)
NextEod ==
    \/ \E o \in ReconOrders :
          ~IsSubmitted(pending_orders, o.id) /\ SubmitOrder(o)
    \/ \E f \in EodFills : FillsRecorded < MaxFills /\ RecordFill(f)
    \/ \E k \in CallbackKinds :
          Len(alert_callbacks) < MaxCallbacks /\ AddAlertCallback(k)
    \/ \E statement \in Statements :
          EndOfDayRecords < MaxRecords /\ ReconcileEndOfDay(statement)

SpecEod == Init /\ [][NextEod]_vars

(* The repeated end-of-day model: orders (each submitted once), one fill   *)
(* per order id and end-of-day runs in any order, without alert callbacks.  *)
MaxPasses == 3          \* no end-of-day run once that many records are stored

NextEodTwice ==
    \/ \E o \in ReconOrders :
          ~IsSubmitted(pending_orders, o.id) /\ SubmitOrder(o)
    \/ \E f \in EodFills :
          fills_by_order[f.order_id] = << >> /\ RecordFill(f)
    \/ \E statement \in Statements :
          EndOfDayRecords < MaxPasses /\ ReconcileEndOfDay(statement)

SpecEodTwice == Init /\ [][NextEodTwice]_vars

(* The overlapping-fills model: alert callbacks are registered, an order   *)
(* is submitted before any fill names it, and record_fill calls are made    *)
(* while earlier ones are suspended in a callback.  5.00 at 1.1000 and 5.00 *)
(* at 1.1100 fill o1 at an average price off by more than the tolerance.    *)
MaxCalls == 3           \* record_fill calls modelled, over all order ids

OverlapFills ==
    {OrderFill("o1", 500, 11000, 1, Some("e1")),
     OrderFill("o1", 500, 11100, 1, Some("e3")),
     OrderFill("o2", 500, 11000, 1, Some("e1"))}

NoCallYet == suspended = << >> /\ finished = << >>

NextOverlappingFills ==
    \/ \E kind \in CallbackKinds :
          /\ NoCallYet /\ Len(alert_callbacks) < MaxCallbacks
          /\ AddAlertCallback(kind)
    \/ \E o \in ReconOrders :
          ~HasPending(pending_orders, o.id) /\ SubmitOrder(o)
    \/ \E f \in OverlapFills : FillsRecorded < MaxCalls /\ RecordFillCall(f)
    \/ \E k \in 1..Len(suspended) : Resume(k)

SpecOverlappingFills == Init /\ [][NextOverlappingFills]_vars

(* The overlapping end-of-day model: one callback, one end-of-day pass over *)
(* a statement without a fill of quantity 0, and calls of submit_order and  *)
(* record_fill made while the pass is suspended in the callback, for order  *)
(* ids other than the one whose record the callback is told of.             *)
OverlapStatements ==
    {<<TradeRepeated, TradeOther>>,
     <<TradeAnonymous, TradeForeignA, TradeForeignB>>}

EndOfDayCalled ==
    \/ \E k \in 1..Len(suspended) : suspended[k].op = "reconcile_end_of_day"
    \/ \E k \in 1..Len(finished) : finished[k].op = "reconcile_end_of_day"

OtherOrder(order_id) ==
    \A k \in 1..Len(suspended) :
        suspended[k].op = "reconcile_end_of_day"
           => suspended[k].pass.current # order_id

NextOverlappingEod ==
    \/ \E kind \in CallbackKinds :
          /\ NoCallYet /\ alert_callbacks = << >>
          /\ AddAlertCallback(kind)
    \/ \E o \in ReconOrders :
          /\ ~IsSubmitted(pending_orders, o.id) /\ OtherOrder(o.id)
          /\ SubmitOrder(o)
    \/ \E f \in OverlapFills :
          /\ FillsRecorded < MaxCalls /\ OtherOrder(f.order_id)
          /\ RecordFillCall(f)
    \/ \E statement \in OverlapStatements :
          ~EndOfDayCalled /\ ReconcileEndOfDayCall(statement)
    \/ \E k \in 1..Len(suspended) : Resume(k)

SpecOverlappingEod == Init /\ [][NextOverlappingEod]_vars

(* The cleanup model: orders are submitted and filled, a statement is       *)
(* reconciled, twelve hours pass at a time, and records are cleaned up      *)
(* with no max age, with a max age of zero and with one of twelve hours.    *)
HalfDay == 43200
CleanupFills ==
    {OrderFill(id, 1000, 11000, 1, Some("e1")) : id \in {"o1"}}
    \union {OrderFill(id, 1, 11000, 1, Some("e2")) : id \in {"o2"}}
CleanupStatements == {<<TradeOther>>}
MaxAges == {None, Some(0), Some(HalfDay)}

NextCleanup ==
    \/ \E o \in ReconOrders :
          ~IsSubmitted(pending_orders, o.id) /\ SubmitOrder(o)
    \/ \E f \in CleanupFills : FillsRecorded < MaxFills /\ RecordFill(f)
    \/ \E statement \in CleanupStatements :
          EndOfDayRecords < MaxRecords /\ ReconcileEndOfDay(statement)
    \/ now < MaxHalfDays * HalfDay /\ Tick(HalfDay)
    \/ \E max_age \in MaxAges : CleanupOldRecords(max_age)

SpecCleanup == Init /\ [][NextCleanup]_vars

(* The pipeline model: venues are registered, the strategy is chosen before *)
(* the first order, each order id is processed once, orders complete.       *)
NextPipeline ==
    \/ \E c \in BrokerConfigs :
          ~HasBroker(brokers, c[1]) /\ RegisterBroker(c[1], c[2], c[3], c[4])
    \/ \E st \in RoutingStrategies :
          routing_history = << >> /\ SetRoutingStrategy(st)
    \/ \E o \in RouteOrders : DecisionIndex(o.id) = 0 /\ ProcessOrder(o)
    \/ \E id \in OrderIds, b \in BrokerNames : CompleteOrder(id, b)

SpecPipeline == Init /\ [][NextPipeline]_vars

(* The endpoint model: venues are registered, time passes, requests arrive  *)
(* with and without an idempotency key, in the header or as clientOrderId.  *)
IdempotencyKeys == {"k1", "k2"}
ApiRequests ==
    {OrderRequest(c, EURUSD, 1000, 11000, "buy", "market") :
        c \in {None} \union {Some(k) : k \in IdempotencyKeys}}
ApiHeaders == {None, Some("k1")}

NextApi ==
    \/ \E c \in BrokerConfigs :
          ~HasBroker(brokers, c[1]) /\ RegisterBroker(c[1], c[2], c[3], c[4])
    \/ \E dt \in TickSteps : now + dt <= MaxTime /\ Tick(dt)
    \/ \E req \in ApiRequests, x_idempotency_key \in ApiHeaders :
          Len(responses) < MaxRequests /\ CreateOrder(req, x_idempotency_key)

SpecApi == Init /\ [][NextApi]_vars

----------------------------------------------------------------------------
(* Claims about the RiskEngine *)

IsBuiltin(v) == v.check # "custom"
IsCustom(v) == v.check = "custom"
IsCustomRun(name) == name = "custom"
IsBuiltinRun(name) == name # "custom"
IsRejectKind(kind) == kind = "reject"

BreakerOpen == circuit_breaker_active /\ now < circuit_breaker_until[1]
BreakerExpired == circuit_breaker_active /\ now >= circuit_breaker_until[1]

(* What each built-in check produces for (o, m) in the current state. *)
Produced(o, m) == [k \in 1..Len(checks) |-> CheckFunc(checks[k], o, m)]

(* The position of the first check that rejects, the last position if none: *)
(* the last check an evaluation invokes.                                     *)
LastRun(produced) ==
    LET rejecting == {k \in 1..Len(produced) :
                         /\ produced[k] # None
                         /\ produced[k][1].result = "reject"}
    IN  IF rejecting = {} THEN Len(produced)
        ELSE CHOOSE k \in rejecting : \A j \in rejecting : k <= j

RECURSIVE Flatten(_)
Flatten(ss) == IF ss = << >> THEN << >> ELSE Head(ss) \o Flatten(Tail(ss))

(* C1, as stated: in the list check_order returns nothing follows the first *)
(* reject-severity violation, and no check is invoked after the check that  *)
(* produced it.                                                             *)
C1_NothingAfterFirstReject ==
    /\ \A i \in 1..Len(violations) :
          violations[i].result = "reject" => i = Len(violations)
    /\ (\E i \in 1..Len(violations) :
            violations[i].result = "reject" /\ IsBuiltin(violations[i]))
       => \A j \in 1..Len(ran) : ran[j] # "custom"

(* C1, amended: in an evaluation that gets past the breaker gate the        *)
(* built-in checks are invoked in their fixed order up to and including the  *)
(* first one that rejects and no built-in check after it; the returned list  *)
(* starts with every violation those checks produced, in check order, the    *)
(* reject last among them; only violations returned by custom checks follow. *)
C1_BuiltinStopsAtFirstReject ==
    [][\A o \in RiskOrders, m \in Markets :
          (~BreakerOpen /\ CheckOrder(o, m)) =>
              LET produced == Produced(o, m)
                  last == LastRun(produced)
                  expected == Flatten(SubSeq(produced, 1, last))
              IN  /\ SelectSeq(ran', IsBuiltinRun) = SubSeq(checks, 1, last)
                  /\ SelectSeq(violations', IsBuiltin) = expected
                  /\ SubSeq(violations', 1, Len(expected)) = expected
                  /\ \A i \in 1..Len(expected) :
                        expected[i].result = "reject" => i = Len(expected)]_vars

(* C1, witness: a built-in warning, then the built-in reject that stopped   *)
(* the sequence before its end, then a custom check's violation.            *)
C1_Witness ==
    /\ Len(violations) >= 3
    /\ IsBuiltin(violations[1]) /\ violations[1].result = "warning"
    /\ IsBuiltin(violations[2]) /\ violations[2].result = "reject"
    /\ IsCustom(violations[3])
    /\ Len(SelectSeq(ran, IsBuiltinRun)) < Len(checks)

(* C2, as stated: the breaker is open whenever five reject violations lie   *)
(* in the trailing minute, counted across calls, and it is opened by no     *)
(* fewer.                                                                   *)
RecentRejectCount ==
    LET InWindow(t) == t > now - OneMinute
    IN  Len(SelectSeq(reject_times, InWindow))

C2_OpensAtFiveRejects ==
    /\ RecentRejectCount >= MaxRejectionsPerMinute => circuit_breaker_active
    /\ (circuit_breaker_active
          /\ circuit_breaker_until = Some(now + CircuitOpenDuration))
       => RecentRejectCount >= MaxRejectionsPerMinute

(* C3: a check_order call made while the breaker is open returns exactly    *)
(* one violation, check circuit_breaker with severity reject, invokes no    *)
(* built-in and no custom check, and leaves the breaker as it is.           *)
C3_OpenBreakerRejectsAlone ==
    [][\A o \in RiskOrders, m \in Markets :
          (BreakerOpen /\ CheckOrder(o, m)) =>
              /\ violations' = <<[check |-> "circuit_breaker",
                                  result |-> "reject", timestamp |-> now]>>
              /\ ran' = << >>]_vars

(* C3, witness: a call answered by the open breaker, custom checks being    *)
(* registered.                                                              *)
C3_Witness ==
    /\ BreakerOpen
    /\ breaker_path = "open"
    /\ custom_checks # << >>
    /\ Len(violations) = 1 /\ violations[1].check = "circuit_breaker"

(* C4: an evaluation before the expiry leaves the breaker open with the     *)
(* same expiry, which is openDuration after the moment it opened; an        *)
(* evaluation at or after the expiry clears it and runs the normal checks   *)
(* (whose own rejects may open it anew, for a new openDuration); only an    *)
(* evaluation at or after the expiry closes the breaker or moves its expiry.*)
EvaluationStep == \E o \in RiskOrders, m \in Markets : CheckOrder(o, m)

C4_OpenUntilExpiry ==
    [][/\ (BreakerOpen /\ EvaluationStep) =>
              /\ circuit_breaker_active'
              /\ circuit_breaker_until' = circuit_breaker_until
       /\ (BreakerExpired /\ EvaluationStep) =>
              /\ ran' # << >> /\ ran'[1] = "buying_power"
              /\ \A i \in 1..Len(violations') :
                    violations'[i].check # "circuit_breaker"
              /\ \/ ~circuit_breaker_active' /\ circuit_breaker_until' = None
                 \/ /\ circuit_breaker_active'
                    /\ circuit_breaker_until' = Some(now + CircuitOpenDuration)
                    /\ Len(RecentRejections(violations'))
                          >= MaxRejectionsPerMinute
       /\ (~circuit_breaker_active /\ circuit_breaker_active') =>
              circuit_breaker_until' = Some(now' + CircuitOpenDuration)
       /\ (circuit_breaker_active
             /\ (~circuit_breaker_active'
                   \/ circuit_breaker_until' # circuit_breaker_until)) =>
              (BreakerExpired /\ EvaluationStep)]_vars

(* C4, witness: the evaluation that found the breaker expired has reset it. *)
C4_Witness ==
    /\ breaker_path = "reset"
    /\ ~circuit_breaker_active
    /\ circuit_breaker_until = None
    /\ ran # << >>

----------------------------------------------------------------------------
(* Claims about the OrderRouter *)

(* The venue an order is assigned to: that of its routing decision. *)
AssignedTo(name) ==
    {id \in OrderIds :
        /\ DecisionIndex(id) # 0
        /\ routing_history[DecisionIndex(id)].selected_broker = name
        /\ id \notin completed}

(* C6, as stated: every registered venue's current_load is the number of    *)
(* routed orders assigned to it that have not been completed.               *)
C6_LoadCountsAssignedOrders ==
    \A i \in 1..Len(brokers) :
        brokers[i].current_load = Cardinality(AssignedTo(brokers[i].name))

(* C7: no venue's current_load is below zero, whatever complete_order and   *)
(* handle_routing_failure calls were made.                                  *)
C7_LoadNeverNegative ==
    \A i \in 1..Len(brokers) : brokers[i].current_load >= 0

(* C7, witness: a decrement was asked of a venue whose load was zero, for   *)
(* an order already completed.                                              *)
C7_Witness ==
    /\ floor_hit
    /\ completed # {}
    /\ \E i \in 1..Len(brokers) : brokers[i].current_load = 0

(* Eligibility as the filter of initial routing states it. *)
Eligible(b, order) ==
    /\ b.status = "connected"
    /\ b.current_load < b.max_concurrent_orders
    /\ (order.type = "limit" => "limit_orders" \in b.capabilities)
    /\ (order.type = "stop" => "stop_orders" \in b.capabilities)
    /\ (order.symbol \in {EURUSD, USDJPY} => "forex" \in b.capabilities)
    /\ (order.symbol = AAPL => "equities" \in b.capabilities)

EligibleIndexes(order) ==
    {i \in 1..Len(brokers) : Eligible(brokers[i], order)}

(* C8: the venue route_order returns is registered and eligible for the     *)
(* order at the time of the call; when no venue is eligible it returns None *)
(* and changes nothing of the router.                                       *)
C8_RoutesOnlyToEligible ==
    [][\A o \in RouteOrders :
          RouteOrder(o) =>
              /\ route_result' # None =>
                    \E i \in EligibleIndexes(o) :
                        brokers[i].name = route_result'[1]
              /\ EligibleIndexes(o) = {} =>
                    /\ route_result' = None
                    /\ UNCHANGED <<brokers, routing_history, failover_cache,
                                   round_robin_index>>]_vars

(* C8, witness: after an order was routed, a call found no eligible venue   *)
(* among the two registered and returned None.                              *)
C8_Witness ==
    /\ route_result = None
    /\ Len(brokers) = 2
    /\ routing_history # << >>
    /\ \A i \in 1..Len(routing_history) :
          routing_history[i].failover_attempts = 0
    /\ \E o \in RouteOrders :
          DecisionIndex(o.id) = 0 /\ EligibleIndexes(o) = {}

(* C9: a route_order call that returns a venue appends one decision (the    *)
(* order's id, the venue, failover_attempts 0), adds exactly 1 to that      *)
(* venue's load and changes no other load and no status; a EURUSD market    *)
(* order sent to a router whose only venue is connected, of capacity 10,    *)
(* load 0 and capabilities {forex}, is routed to it and its load becomes 1. *)
ScenarioOne ==
    /\ Len(brokers) = 1
    /\ brokers[1].status = "connected"
    /\ brokers[1].max_concurrent_orders = 10
    /\ brokers[1].current_load = 0
    /\ brokers[1].capabilities = {"forex"}

C9_RouteEffect ==
    [][\A o \in RouteOrders :
          RouteOrder(o) =>
              /\ route_result' # None =>
                    /\ Len(routing_history') = Len(routing_history) + 1
                    /\ SubSeq(routing_history', 1, Len(routing_history))
                          = routing_history
                    /\ LET d == routing_history'[Len(routing_history')]
                       IN  /\ d.order_id = o.id
                           /\ d.selected_broker = route_result'[1]
                           /\ d.failover_attempts = 0
                    /\ Len(brokers') = Len(brokers)
                    /\ \A i \in 1..Len(brokers) :
                          /\ brokers'[i].name = brokers[i].name
                          /\ brokers'[i].status = brokers[i].status
                          /\ brokers'[i].current_load =
                                IF brokers[i].name = route_result'[1]
                                THEN brokers[i].current_load + 1
                                ELSE brokers[i].current_load
              /\ (ScenarioOne /\ o.symbol = EURUSD /\ o.type = "market") =>
                    /\ route_result' = Some(brokers[1].name)
                    /\ brokers'[1].current_load = 1]_vars

(* C9, witness: scenario 1 after the call. *)
C9_Witness ==
    /\ Len(brokers) = 1
    /\ brokers[1].max_concurrent_orders = 10
    /\ brokers[1].capabilities = {"forex"}
    /\ brokers[1].current_load = 1
    /\ route_result = Some(brokers[1].name)
    /\ Len(routing_history) = 1
    /\ routing_history[1].selected_broker = brokers[1].name

(* C10: under least_loaded the venue selected has a load no greater than    *)
(* that of any eligible venue, and comes before every other eligible venue  *)
(* of the same load in the order of the filtered set.                       *)
C10_LeastLoadedIsMinimal ==
    [][\A o \in RouteOrders :
          (routing_strategy = "least_loaded" /\ RouteOrder(o)
             /\ route_result' # None) =>
              \E i \in EligibleIndexes(o) :
                  /\ brokers[i].name = route_result'[1]
                  /\ \A j \in EligibleIndexes(o) :
                        /\ brokers[i].current_load <= brokers[j].current_load
                        /\ brokers[j].current_load = brokers[i].current_load
                              => i <= j]_vars

(* C10, witness: least_loaded passed over the first venue, eligible but     *)
(* loaded, for the second one, which had no load.                           *)
C10_Witness ==
    /\ routing_strategy = "least_loaded"
    /\ Len(brokers) = 2
    /\ route_result = Some(brokers[2].name)
    /\ brokers[1].status = "connected"
    /\ "forex" \in brokers[1].capabilities
    /\ brokers[1].max_concurrent_orders = 10
    /\ brokers[1].current_load = 1
    /\ brokers[2].current_load = 1
    /\ Len(routing_history) = 2
    /\ routing_history[1].selected_broker = brokers[1].name
    /\ routing_history[2].selected_broker = brokers[2].name
    /\ completed = {}

(* C11: under round_robin a selection returns the venue at the index (at   *)
(* 0 when the index is out of range for the list) and leaves the index one  *)
(* past it; any n consecutive round_robin selections on the same list of n  *)
(* venues return n distinct venues, whatever the index was before them.     *)
RoundRobinRun(n) ==
    /\ Len(selections) >= n
    /\ \A k \in (Len(selections) - n + 1)..Len(selections) :
          /\ selections[k].strategy = "round_robin"
          /\ selections[k].brokers = selections[Len(selections)].brokers
    /\ Len(selections[Len(selections)].brokers) = n

C11_RoundRobinDistinct ==
    [][\A names \in SelectLists :
          (routing_strategy = "round_robin" /\ SelectBroker(names, "o1")) =>
              /\ LET start == IF round_robin_index >= Len(names)
                               THEN 0 ELSE round_robin_index
                 IN  /\ selections'[Len(selections')].selected
                           = Some(names[start + 1])
                     /\ round_robin_index' = start + 1
              /\ \A n \in 1..MaxSelections :
                    RoundRobinRun(n)' =>
                        \A j, k \in (Len(selections') - n + 1)..Len(selections') :
                            j # k => selections'[j].selected
                                        # selections'[k].selected]_vars

(* C11, witness: three consecutive round_robin selections on a list of     *)
(* three venues, begun with the index out of range for it, so that the      *)
(* index was reset on the first of them.                                    *)
C11_Witness ==
    /\ RoundRobinRun(3)
    /\ selections[1].index_before >= 3
    /\ selections[1].selected = Some(selections[1].brokers[1])
    /\ selections[3].selected = Some(selections[3].brokers[3])

(* C12, as stated: a handle_routing_failure call that reassigns the order   *)
(* picks a venue other than the failed one that passes the filter of        *)
(* initial routing at that moment (connected, current_load below            *)
(* max_concurrent_orders), and leaves no venue with a load above its        *)
(* max_concurrent_orders.                                                   *)
C12_FailoverRespectsFilter ==
    [][\A id \in OrderIds, b \in BrokerNames :
          (DecisionIndex(id) # 0 /\ HandleRoutingFailure(id, b)
             /\ routing_history'[DecisionIndex(id)].failover_attempts
                   # routing_history[DecisionIndex(id)].failover_attempts) =>
              LET new_broker == routing_history'[DecisionIndex(id)].selected_broker
              IN  /\ new_broker # b
                  /\ Broker(brokers, new_broker).status = "connected"
                  /\ Broker(brokers, new_broker).current_load
                        < Broker(brokers, new_broker).max_concurrent_orders
                  /\ \A i \in 1..Len(brokers') :
                        brokers'[i].current_load
                           <= brokers'[i].max_concurrent_orders]_vars


----------------------------------------------------------------------------
(* Claims about the ReconciliationService *)

(* The entries of pending_orders whose order has been submitted. *)
SubmittedIndexes ==
    {i \in 1..Len(pending_orders) : pending_orders[i].order # None}

(* C13: the tracked status of a submitted order is matched whenever its     *)
(* recorded fills sum to within the quantity tolerance of the expected      *)
(* quantity, and an order with no fills stays pending.                      *)
C13_MatchedWithinTolerance ==
    \A i \in SubmittedIndexes :
        LET entry == pending_orders[i]
            filled_quantity == SumQuantity(entry.fills)
        IN  /\ (entry.fills # << >>
                  /\ Abs(filled_quantity - entry.order[1].qty)
                        <= ToleranceQuantity)
               => entry.status = "matched"
            /\ entry.fills = << >> => entry.status = "pending"

(* C14: a fill is identified by its execution id (or the composite key):    *)
(* after recording, the fills of an order hold each key once.               *)
C14_OneFillPerExecution ==
    \A i \in 1..Len(pending_orders) :
        \A j, k \in 1..Len(pending_orders[i].fills) :
            ExecutionKey(pending_orders[i].fills[j])
                  = ExecutionKey(pending_orders[i].fills[k])
               => j = k

(* C15: the fills buffered for an order id before its order arrives are     *)
(* still the fills of the order once submit_order has run for it.           *)
C15_BufferedFillsKept ==
    [][\A o \in ReconOrders :
          (/\ SubmitOrder(o)
           /\ HasPending(pending_orders, o.id)
           /\ ~IsSubmitted(pending_orders, o.id))
          => LET before == pending_orders[PendingIndex(pending_orders, o.id)]
                 after == pending_orders'[PendingIndex(pending_orders', o.id)]
             IN  /\ Range(before.fills) \subseteq Range(after.fills)
                 /\ SumQuantity(after.fills) = SumQuantity(before.fills)]_vars


(* The records the step appends to reconciliation_records. *)
NewRecords ==
    SubSeq(reconciliation_records', Len(reconciliation_records) + 1,
           Len(reconciliation_records'))

(* The fills a statement reports for an order id. *)
StatementFills(statement, order_id) ==
    LET trades == TradesOf(statement, order_id)
    IN  [k \in 1..Len(trades) |->
            OrderFill(order_id, trades[k].quantity, trades[k].price,
                      trades[k].timestamp, trades[k].execution_id)]

(* C16: at the end of the day every order id of the statement that was      *)
(* never submitted locally gets one unmatched record, with expected         *)
(* quantity 0 and the sum of its trades as filled quantity, and one alert   *)
(* to every registered callback.                                            *)
C16_UnknownIdsReported ==
    [][\A statement \in Statements :
          ReconcileEndOfDay(statement)
          => \A id \in Range(GroupedIds(statement, << >>)) :
                ~IsSubmitted(pending_orders, id)
                => /\ Cardinality({k \in 1..Len(NewRecords) :
                          /\ NewRecords[k].order_id = id
                          /\ NewRecords[k].status = "unmatched"
                          /\ NewRecords[k].expected_quantity = 0
                          /\ NewRecords[k].filled_quantity
                                = SumQuantity(TradesOf(statement, id))}) = 1
                   /\ \A c \in 1..Len(alert_callbacks) :
                         Cardinality({a \in 1..Len(alerts') :
                             /\ alerts'[a].callback = c
                             /\ alerts'[a].order_id = id
                             /\ alerts'[a].expected_quantity = 0}) = 1]_vars

(* C17: at the end of the day every submitted order whose status is not     *)
(* matched has its fills merged with the statement's trades for its id,     *)
(* each execution kept once, and gets exactly one new end-of-day record     *)
(* built from them; a matched order gets no record.                         *)
C17_OneRecordPerPendingOrder ==
    [][\A statement \in Statements :
          ReconcileEndOfDay(statement)
          => \A i \in SubmittedIndexes :
                LET entry == pending_orders[i]
                    after == pending_orders'[i]
                    merged == entry.fills \o StatementFills(statement, entry.id)
                    fresh == {k \in 1..Len(NewRecords) :
                                 NewRecords[k].order_id = entry.id}
                IN  IF entry.status = "matched"
                    THEN fresh = {} /\ after = entry
                    ELSE /\ {ExecutionKey(after.fills[k]) :
                                k \in 1..Len(after.fills)}
                              = {ExecutionKey(merged[k]) : k \in 1..Len(merged)}
                         /\ \A j, k \in 1..Len(after.fills) :
                               ExecutionKey(after.fills[j])
                                     = ExecutionKey(after.fills[k])
                                  => j = k
                         /\ Cardinality(fresh) = 1
                         /\ \A k \in fresh :
                               /\ NewRecords[k].reconciliation_type = "end_of_day"
                               /\ NewRecords[k].fills = after.fills]_vars


(* The callbacks a step has to call: for each record it appends with        *)
(* discrepancies, in order, every registered callback in registration order.*)
ExpectedAlerts ==
    Flatten([k \in 1..Len(NewRecords) |->
        IF NewRecords[k].discrepancies # << >>
        THEN [c \in 1..Len(alert_callbacks) |->
                 [callback |-> c, order_id |-> NewRecords[k].order_id,
                  discrepancies |-> NewRecords[k].discrepancies]]
        ELSE << >>])

(* C18: every record created with discrepancies is stored and triggers      *)
(* every registered callback once, in registration order, whether or not    *)
(* an earlier callback raised; a record without discrepancies triggers      *)
(* none; the records of the same run that follow are still created.         *)
C18_AlertsPerDiscrepancy ==
    [][[a \in 1..Len(alerts') |->
           [callback |-> alerts'[a].callback,
            order_id |-> alerts'[a].order_id,
            discrepancies |-> alerts'[a].discrepancies]]
         = ExpectedAlerts]_vars

(* Two records with discrepancies written by one end-of-day run, each       *)
(* reported to a callback that raises and then to one that returns.         *)
C18_Witness ==
    /\ alert_callbacks = <<"raise", "ok">>
    /\ Len(reconciliation_records) = 2
    /\ \A k \in 1..2 : reconciliation_records[k].discrepancies # << >>
    /\ reconciliation_records[1].order_id # reconciliation_records[2].order_id
    /\ [a \in 1..Len(alerts) |-> <<alerts[a].callback, alerts[a].outcome,
                                   alerts[a].order_id>>]
          = <<<<1, "raise", reconciliation_records[1].order_id>>,
              <<2, "ok", reconciliation_records[1].order_id>>,
              <<1, "raise", reconciliation_records[2].order_id>>,
              <<2, "ok", reconciliation_records[2].order_id>>>>


(* Scenario 3 of the specification: 1000.00 expected at 1.1000, filled by   *)
(* 500.00 at 1.1000 and 500.00 at 1.1002 (quantities in units here).        *)
ScenarioThree ==
    ReconciliationRecord(
        "o1", Order("o1", EURUSD, 1000, Some(11000), "buy", "limit"),
        <<OrderFill("o1", 500, 11000, 1, Some("e1")),
          OrderFill("o1", 500, 11002, 2, Some("e2"))>>, "real_time")[1]

----------------------------------------------------------------------------
(* Claims about the pipeline coordinator *)

(* C20: every order process_order accepts has gone through risk evaluation, *)
(* routing, venue submission and reconciliation registration, in that       *)
(* order, and is registered with the ReconciliationService.                 *)
C20_AcceptedThroughAllStages ==
    process_result = "accepted"
    => /\ stages = <<"risk", "route", "submit", "reconcile">>
       /\ route_result # None
       /\ \E id \in OrderIds : IsSubmitted(pending_orders, id)


----------------------------------------------------------------------------
(* Claims about the selection strategies and the failover, continued *)

(* C28: under the priority_based strategy the venue selected from a list    *)
(* has the maximum priority of the list, and of the venues of the list with *)
(* that priority it is the earliest.                                        *)
C28_PriorityIsMaximal ==
    [][\A names \in SelectLists :
          (/\ \A i \in 1..Len(names) : HasBroker(brokers, names[i])
           /\ routing_strategy = "priority_based"
           /\ SelectBroker(names, "o1")) =>
              \E i \in 1..Len(names) :
                  /\ selections'[Len(selections')].selected = Some(names[i])
                  /\ \A j \in 1..Len(names) :
                        /\ Broker(brokers, names[j]).priority
                              <= Broker(brokers, names[i]).priority
                        /\ Broker(brokers, names[j]).priority
                              = Broker(brokers, names[i]).priority
                              => i <= j]_vars

(* C28, witness: of three venues the second and the third share the highest *)
(* priority, and the second was selected.                                   *)
C28_Witness ==
    /\ selections # << >>
    /\ LET last == selections[Len(selections)]
       IN  /\ last.strategy = "priority_based"
           /\ last.brokers = <<"b1", "b2", "b3">>
           /\ last.selected = Some("b2")
           /\ Broker(brokers, "b1").priority < Broker(brokers, "b2").priority
           /\ Broker(brokers, "b2").priority = Broker(brokers, "b3").priority


(* The eligible venue with the least load, the earliest of them in          *)
(* self.brokers: what the least_loaded strategy selects for the order.      *)
LeastLoadedEligible(order) ==
    LET i == CHOOSE i \in EligibleIndexes(order) :
                 \A j \in EligibleIndexes(order) :
                     /\ brokers[i].current_load <= brokers[j].current_load
                     /\ brokers[j].current_load = brokers[i].current_load
                           => i <= j
    IN  brokers[i].name

(* The eligible venues recorded in the failover cache of the order. *)
CachedEligible(order) ==
    {brokers[i].name : i \in EligibleIndexes(order)}
        \cap Range(failover_cache[order.id])

(* C29, as stated: under the failover strategy route_order selects a venue  *)
(* recorded in the order's failover cache when a recorded venue is          *)
(* eligible, and the least-loaded eligible venue otherwise; complete_order  *)
(* drops the cache entry of the order.                                      *)
C29_PrefersCachedVenue ==
    [][\A o \in RerouteOrders :
          /\ (routing_strategy = "failover" /\ RouteOrder(o)
                 /\ route_result' # None)
             => IF CachedEligible(o) # {}
                THEN route_result'[1] \in CachedEligible(o)
                ELSE route_result'[1] = LeastLoadedEligible(o)
          /\ \A b \in BrokerNames :
                CompleteOrder(o.id, b) => failover_cache'[o.id] = << >>]_vars

(* C29, amended: under the failover strategy route_order selects the first  *)
(* venue recorded in the order's failover cache when that venue is          *)
(* eligible, and the least-loaded eligible venue otherwise, also when a     *)
(* venue recorded later is eligible; complete_order empties the cache       *)
(* entry, so that the next selection for the order is the least-loaded one. *)
C29_PrefersFirstCachedVenue ==
    [][\A o \in RerouteOrders :
          /\ (routing_strategy = "failover" /\ RouteOrder(o)
                 /\ route_result' # None)
             => IF /\ failover_cache[o.id] # << >>
                   /\ failover_cache[o.id][1] \in CachedEligible(o)
                THEN route_result'[1] = failover_cache[o.id][1]
                ELSE route_result'[1] = LeastLoadedEligible(o)
          /\ \A b \in BrokerNames :
                CompleteOrder(o.id, b) => failover_cache'[o.id] = << >>]_vars

(* C29, witness: the order was routed a second time, to the venue its cache *)
(* records first, although another connected venue carries less load.       *)
C29_Witness ==
    /\ routing_strategy = "failover"
    /\ Len(routing_history) = 2
    /\ failover_cache["o1"] # << >>
    /\ route_result = Some(failover_cache["o1"][1])
    /\ routing_history[2].selected_broker = failover_cache["o1"][1]
    /\ routing_history[2].failover_attempts = 0
    /\ \E i \in 1..Len(brokers) :
          /\ brokers[i].status = "connected"
          /\ brokers[i].current_load + 1
                < Broker(brokers, failover_cache["o1"][1]).current_load


(* The decisions recorded for an order, and the connected venues other than *)
(* a failed one.                                                            *)
DecisionsOf(order_id) ==
    {i \in 1..Len(routing_history) : routing_history[i].order_id = order_id}

Alternatives(failed_broker) ==
    {brokers[i].name : i \in {j \in 1..Len(brokers) :
        brokers[j].name # failed_broker /\ brokers[j].status = "connected"}}

(* C30: handle_routing_failure never appends a decision.  With a decision   *)
(* for the order and a connected venue other than the failed one, the most  *)
(* recent decision of the order gets the new venue and one more failover    *)
(* attempt, the other decisions stay as they are, and the new venue is      *)
(* appended to the failover cache of the order.  Without a decision no      *)
(* router state changes; without such a venue only the status of the        *)
(* failed venue changes.                                                    *)
C30_FailoverUpdatesInPlace ==
    [][\A id \in OrderIds, failed \in {"b1", "b2", "b3"} :
          HandleRoutingFailure(id, failed) =>
            /\ Len(routing_history') = Len(routing_history)
            /\ IF DecisionsOf(id) = {}
               THEN UNCHANGED <<brokers, routing_history, routing_strategy,
                                round_robin_index, failover_cache>>
               ELSE IF Alternatives(failed) = {}
               THEN /\ UNCHANGED <<routing_history, routing_strategy,
                                   round_robin_index, failover_cache>>
                    /\ Len(brokers') = Len(brokers)
                    /\ \A i \in 1..Len(brokers) :
                          /\ brokers[i].name # failed => brokers'[i] = brokers[i]
                          /\ [brokers'[i] EXCEPT !.status = "any"]
                                = [brokers[i] EXCEPT !.status = "any"]
               ELSE \E m \in DecisionsOf(id) :
                      /\ \A k \in DecisionsOf(id) : k <= m
                      /\ routing_history'[m].selected_broker
                            \in Alternatives(failed)
                      /\ routing_history'[m].failover_attempts
                            = routing_history[m].failover_attempts + 1
                      /\ failover_cache' =
                            [failover_cache EXCEPT ![id] =
                                Append(@, routing_history'[m].selected_broker)]
                      /\ \A k \in 1..Len(routing_history) :
                            k # m => routing_history'[k] = routing_history[k]]_vars

(* C30, witness: the order has two decisions; a failover has updated the    *)
(* second one and left the first as route_order wrote it.                   *)
C30_Witness ==
    /\ Len(routing_history) = 2
    /\ routing_history[1].order_id = "o1"
    /\ routing_history[2].order_id = "o1"
    /\ routing_history[1].failover_attempts = 0
    /\ routing_history[2].failover_attempts = 1
    /\ routing_history[2].selected_broker # routing_history[1].selected_broker
    /\ failover_cache["o1"] = <<routing_history[2].selected_broker>>

----------------------------------------------------------------------------
(* Claims about the cleanup of the ReconciliationService *)

(* The max age a call asks for: its argument, the default without one. *)
RequestedMaxAge(max_age) ==
    IF max_age = None THEN MaxReconciliationAge ELSE max_age[1]

CountWhere(seq, Test(_)) == Len(SelectSeq(seq, Test))

(* What is left of a list after a cleanup that purges what is older than    *)
(* max_age and keeps what is younger (what is exactly max_age old may go    *)
(* either way).                                                             *)
PurgedByAge(before, after, Stamp(_), Purgeable(_), age) ==
    /\ \A k \in 1..Len(after) :
          ~(Purgeable(after[k]) /\ now - Stamp(after[k]) > age)
    /\ CountWhere(after, LAMBDA e : ~Purgeable(e) \/ now - Stamp(e) < age)
          = CountWhere(before, LAMBDA e : ~Purgeable(e) \/ now - Stamp(e) < age)

CleanupAsRequested(max_age) ==
    /\ PurgedByAge(reconciliation_records, reconciliation_records',
                   LAMBDA r : r.timestamp, LAMBDA r : TRUE,
                   RequestedMaxAge(max_age))
    /\ PurgedByAge(pending_orders, pending_orders',
                   LAMBDA e : e.submitted_at, LAMBDA e : e.status = "matched",
                   RequestedMaxAge(max_age))

(* C27: a cleanup purges exactly the records older than the max age it is  *)
(* called with and the tracked orders both matched and older than it; it    *)
(* removes no non-matched order and nothing younger; no other operation     *)
(* removes a record or a tracked order.                                     *)
C27_CleanupPurgesExactlyTheOld ==
    [][/\ \A max_age \in MaxAges :
             CleanupOldRecords(max_age) => CleanupAsRequested(max_age)
       /\ (~\E max_age \in MaxAges : CleanupOldRecords(max_age)) =>
             /\ Len(reconciliation_records') >= Len(reconciliation_records)
             /\ \A i \in 1..Len(pending_orders) :
                   HasPending(pending_orders', pending_orders[i].id)]_vars

----------------------------------------------------------------------------
(* Claims about the orders endpoint *)

TerminalStatuses == {"accepted", "rejected", "duplicate", "failed", "error"}

(* C21: every order request (here: every one that carries an idempotency    *)
(* key) is answered with one terminal status among accepted, rejected,      *)
(* duplicate, failed and error, and the answer carries a reason string.     *)
C21_TerminalStatusWithReason ==
    \A i \in 1..Len(responses) :
        responses[i].idempotency # None =>
            /\ responses[i].status \in TerminalStatuses
            /\ responses[i].reason # None

Accepted(idempotency) ==
    {i \in 1..Len(responses) :
        /\ responses[i].idempotency = Some(idempotency)
        /\ responses[i].status = "accepted"}

(* C22: at most one order per idempotency key is accepted and routed, and   *)
(* an OrderSubmitted event is recorded for each accepted order.             *)
C22_OneOrderPerIdempotencyKey ==
    \A k \in IdempotencyKeys :
        /\ Cardinality(Accepted(k)) <= 1
        /\ Accepted(k) # {} => SubmittedEvent(k) # 0

----------------------------------------------------------------------------
(* Claims about the health monitoring of the OrderRouter *)

(* C23: the probe of a registered venue that succeeds leaves the venue      *)
(* connected, the probe that fails (the awaited call raised) makes a        *)
(* connected venue degraded and leaves any other status, and in both cases  *)
(* lastHeartbeat becomes the current time; a pass that returns has probed   *)
(* every registered venue.                                                  *)
C23_ProbeSettlesStatus ==
    [][/\ \A outcome \in ProbeOutcomes :
             (/\ health_pc = "probe"
              /\ ~health_iter.stale
              /\ ProbeDone(outcome)) =>
                LET before == Broker(brokers, health_iter.name)
                    after == Broker(brokers', health_iter.name)
                IN  /\ (outcome = "ok" => after.status = "connected")
                    /\ (outcome = "error" =>
                          after.status = IF before.status = "connected"
                                         THEN "degraded" ELSE before.status)
                    /\ after.last_heartbeat = now
       /\ (health_pc = "probe" /\ health_pc' = "sleep") =>
             Registered(brokers') \subseteq health_probed']_vars

(* A pass has returned after probing both venues, five minutes after they   *)
(* were registered: one probe failed, the other succeeded.                  *)
C23_Witness ==
    /\ health_pc = "sleep"
    /\ now > 0
    /\ health_probed = {"b1", "b2"}
    /\ \E i, j \in 1..Len(brokers) :
          /\ brokers[i].status = "degraded" /\ brokers[i].last_heartbeat = now
          /\ brokers[j].status = "connected" /\ brokers[j].last_heartbeat = now

(* C24: when a pass ends, by returning or by raising, every venue that was  *)
(* registered when it began and still is has been probed in it, whatever    *)
(* register_broker, unregister_broker and route_order did meanwhile.        *)
C24_EveryVenueProbed ==
    [][(health_pc = "probe" /\ health_pc' \in {"sleep", "error_sleep"}) =>
          (health_iter.registered \cap Registered(brokers'))
              \subseteq health_probed']_vars

(* The loop is at one of its awaits. *)
HealthRunning == health_pc \in {"created", "probe", "sleep", "error_sleep"}

(* C25: from wherever the loop is, the sleep after an iteration that raised *)
(* included, another pass begins, unless stop_health_monitoring is called.  *)
C25_LoopKeepsRunning ==
    \A p \in {0, 1} :
        (HealthRunning /\ health_check_task /\ health_pass = p)
            ~> (health_pass # p \/ ~health_check_task)

(* A pass that began after the sleep of an iteration that raised. *)
C25_Witness ==
    /\ health_pc = "probe"
    /\ health_iter.retry
    /\ health_check_task

(* The loop has taken a step. *)
LoopMoved ==
    \/ health_pc' # health_pc
    \/ health_probed' # health_probed
    \/ health_pass' # health_pass
    \/ health_iter'.pos # health_iter.pos

(* C26: once stop_health_monitoring has cancelled the task, the only step   *)
(* of the loop is its end, which happens and updates no venue; an ended     *)
(* loop does nothing until monitoring is started again.                     *)
C26_StopEndsLoop ==
    /\ [][/\ (health_cancel /\ LoopMoved) =>
                (health_pc' = "done" /\ brokers' = brokers)
          /\ (health_pc = "done" /\ LoopMoved) =>
                (health_pc' = "created" /\ brokers' = brokers)]_vars
    /\ (health_cancel ~> health_pc = "done")

(* The loop has ended while it was suspended in a probe, in the sleep after *)
(* a pass: these are two states; the witness is the first.                  *)
C26_Witness ==
    /\ health_pc = "done"
    /\ ~health_cancel
    /\ health_iter.pos > 0
    /\ health_iter.size > health_iter.pos

----------------------------------------------------------------------------
(* Claims about the buying-power check *)

(* The margin an order adds and the utilization after it, as the claim      *)
(* words them: (marginUsed + 2% of notional) / balance, in hundredths.      *)
UtilizationExceeds(order, market_data, pct) ==
    LET after == 100 * margin_used
                 + 2 * order.qty * PriceOrMid(order, market_data)
    IN  \/ account_balance > 0 /\ after > pct * account_balance
        \/ account_balance < 0 /\ after < pct * account_balance

(* C32: the buying-power check rejects an order (of a valid price, on an    *)
(* account whose balance is not 0) when the utilization after the trade     *)
(* exceeds 0.8, and it never returns a warning.                             *)
C32_BuyingPowerNeverWarns ==
    [][\A o \in BuyingPowerOrders, m \in Markets :
          CheckBuyingPower(o, m) =>
             /\ (/\ PriceOrMid(o, m) > 0
                 /\ account_balance # 0
                 /\ UtilizationExceeds(o, m, 80)) =>
                    /\ Len(violations') = 1
                    /\ violations'[1].result = "reject"
             /\ \A i \in 1..Len(violations') :
                   violations'[i].result # "warning"]_vars

(* The check was called on an account already used above the margin-call   *)
(* level of 0.9, and has rejected the order.                                *)
C32_Witness ==
    /\ breaker_path = "direct"
    /\ ran = <<"buying_power">>
    /\ account_balance > 0
    /\ 100 * margin_used > 90 * account_balance
    /\ Len(violations) = 1
    /\ violations[1].result = "reject"

----------------------------------------------------------------------------
(* Claims about the ReconciliationService, continued *)

(* The tracked entry of an order id. *)
Tracked(po, order_id) == po[PendingIndex(po, order_id)]

(* C31: record_fill appends the fill to the fills of its order; it appends  *)
(* one real-time record exactly when the order has been submitted and the   *)
(* fills now sum to within the quantity tolerance of the expected quantity; *)
(* when they sum to more than 0 and not to within the tolerance, the        *)
(* tracked status becomes partial and no record is appended.                *)
C31_RecordExactlyWhenFilled ==
    [][\A f \in ReconFills :
          RecordFill(f) =>
             LET after == Tracked(pending_orders', f.order_id)
                 known == IsSubmitted(pending_orders, f.order_id)
                 filled_quantity == SumQuantity(after.fills)
                 within == /\ known
                           /\ Abs(filled_quantity - after.order[1].qty)
                                 <= ToleranceQuantity
             IN  /\ after.fills # << >>
                 /\ after.fills[Len(after.fills)] = f
                 /\ within <=>
                       /\ Len(NewRecords) = 1
                       /\ NewRecords[1].reconciliation_type = "real_time"
                       /\ NewRecords[1].order_id = f.order_id
                 /\ ~within => NewRecords = << >>
                 /\ (known /\ filled_quantity > 0 /\ ~within) =>
                       after.status = "partial"]_vars

----------------------------------------------------------------------------
(* Claims about routing while the health task runs *)

(* C33: however the steps of the health task and the calls of route_order   *)
(* interleave, the venue whose current_load a call increments is connected  *)
(* and below max_concurrent_orders when the increment is made, and a call   *)
(* that returns None increments nothing.                                    *)
C33_IncrementedVenueAvailable ==
    [][\A o \in HealthOrders :
          RouteOrder(o) =>
             \A i \in 1..Len(brokers) :
                 brokers'[i].current_load # brokers[i].current_load =>
                    /\ brokers[i].status = "connected"
                    /\ brokers[i].current_load < brokers[i].max_concurrent_orders
                    /\ brokers'[i].current_load = brokers[i].current_load + 1
                    /\ route_result' = Some(brokers[i].name)]_vars

(* C33, witness: a pass of the health task is suspended in a probe, a probe *)
(* of this or an earlier pass has degraded one venue, and an order has just *)
(* been routed to the other one, which is now at its capacity.              *)
C33_Witness ==
    /\ health_pc = "probe"
    /\ Len(brokers) = 2
    /\ route_result # None
    /\ \E i, j \in 1..Len(brokers) :
          /\ brokers[i].status = "degraded"
          /\ brokers[i].current_load = 0
          /\ brokers[j].name = route_result[1]
          /\ brokers[j].status = "connected"
          /\ brokers[j].current_load = brokers[j].max_concurrent_orders

----------------------------------------------------------------------------
(* Claims about the history of reconciliation records *)

(* What a record says: its fields without the aliasing flag of the model. *)
Emitted(record) ==
    [order_id |-> record.order_id,
     filled_quantity |-> record.filled_quantity,
     status |-> record.status,
     discrepancies |-> record.discrepancies,
     fills |-> record.fills]

(* C35: the records are append-only and immutable: no step of record_fill,  *)
(* submit_order or reconcile_end_of_day removes a record or changes the     *)
(* filled quantity, the status, the discrepancies or the list of fills of a *)
(* record emitted before it; a later pass adds a record.                    *)
C35_RecordsImmutable ==
    [][(\/ \E f \in EodFills : RecordFill(f)
        \/ \E o \in ReconOrders : SubmitOrder(o)
        \/ \E s \in Statements : ReconcileEndOfDay(s))
       => /\ Len(reconciliation_records') >= Len(reconciliation_records)
          /\ \A k \in 1..Len(reconciliation_records) :
                Emitted(reconciliation_records'[k])
                   = Emitted(reconciliation_records[k])]_vars

(* C38: the tracked status of an order, once matched, is stable: no later   *)
(* record_fill, whatever its quantity, and no reconcile_end_of_day moves it *)
(* out of matched.                                                          *)
C38_MatchedIsStable ==
    [][(\/ \E f \in EodFills : RecordFill(f)
        \/ \E s \in Statements : ReconcileEndOfDay(s))
       => \A i \in 1..Len(pending_orders) :
             pending_orders[i].status = "matched" =>
                /\ HasPending(pending_orders', pending_orders[i].id)
                /\ Tracked(pending_orders', pending_orders[i].id).status
                      = "matched"]_vars

(* The last record written for an order id, None when there is none. *)
LatestRecord(order_id) ==
    LET of == {k \in 1..Len(reconciliation_records) :
                  reconciliation_records[k].order_id = order_id}
    IN  IF of = {} THEN None
        ELSE Some(reconciliation_records[CHOOSE k \in of : \A j \in of : j <= k])

----------------------------------------------------------------------------
(* Claims about the failover of a routed order, continued *)

(* C39: handle_routing_failure is all-or-nothing: when the call is over,    *)
(* returned or raised, the decision and the failover cache of the order     *)
(* were changed exactly when the current_load of a venue was incremented,   *)
(* and then that venue is the one the decision names and the cache holds    *)
(* last.                                                                    *)
C39_FailoverAllOrNothing ==
    [][\A id \in OrderIds, b \in BrokerNames :
          HandleRoutingFailure(id, b) =>
             LET incremented ==
                     {i \in 1..Len(brokers) :
                         brokers'[i].current_load = brokers[i].current_load + 1}
                 cache == failover_cache'[id]
             IN  /\ (routing_history' # routing_history) <=> (incremented # {})
                 /\ (failover_cache' # failover_cache) <=> (incremented # {})
                 /\ \A i \in incremented :
                       /\ RecordedVenue(id)' = brokers[i].name
                       /\ cache # << >>
                       /\ cache[Len(cache)] = brokers[i].name]_vars

----------------------------------------------------------------------------
(* Claims about repeated end-of-day runs *)

(* The service after the last call, as the next call finds it. *)
ServiceAfter ==
    [pending |-> pending_orders', records |-> reconciliation_records',
     alerts |-> << >>, raised |-> FALSE]

(* C40: reconcile_end_of_day run a second time with the same statement      *)
(* leaves the fills and the filled quantity of every tracked order as the   *)
(* first run left them, and tracks the same orders.                         *)
C40_EndOfDayIdempotent ==
    [][\A statement \in Statements :
          ReconcileEndOfDay(statement) =>
             LET twice == ReconcileAll(ServiceAfter, statement).pending
             IN  /\ Len(twice) = Len(pending_orders')
                 /\ \A i \in 1..Len(twice) :
                       /\ twice[i].id = pending_orders'[i].id
                       /\ twice[i].fills = pending_orders'[i].fills
                       /\ SumQuantity(twice[i].fills)
                             = SumQuantity(pending_orders'[i].fills)]_vars

(* The end-of-day records of an order id, oldest first. *)
EndOfDayRecordsOf(order_id) ==
    SelectSeq(reconciliation_records,
              LAMBDA r : r.order_id = order_id
                         /\ r.reconciliation_type = "end_of_day")

(* C40, witness: two end-of-day runs with the statement that holds          *)
(* execution e2 for o2 have been made (no run with another statement: no    *)
(* record for x1, no fill e9): each wrote a record for o2, both with the    *)
(* same fills, and o2 is tracked with one fill, e2, which came from the     *)
(* statement.                                                               *)
C40_Witness ==
    /\ IsSubmitted(pending_orders, "o2")
    /\ fills_by_order["o2"] = << >>
    /\ Len(Tracked(pending_orders, "o2").fills) = 1
    /\ Tracked(pending_orders, "o2").fills[1].execution_id = Some("e2")
    /\ EndOfDayRecordsOf("x1") = << >>
    /\ Len(EndOfDayRecordsOf("o2")) = 2
    /\ EndOfDayRecordsOf("o2")[1].fills = EndOfDayRecordsOf("o2")[2].fills
    /\ EndOfDayRecordsOf("o2")[1].fills = Tracked(pending_orders, "o2").fills

----------------------------------------------------------------------------
(* Claims about calls of the service that overlap *)

(* How many times the fill is in the list. *)
TimesIn(fills, fill) ==
    Cardinality({k \in 1..Len(fills) : fills[k] = fill})

(* The tracked status after record_fill calls made one after the other,     *)
(* each run to its end, for the fills in the order given.                   *)
RECURSIVE SequentialStatus(_, _, _, _)
SequentialStatus(status, filled, expected_quantity, fills) ==
    IF fills = << >> THEN status
    ELSE LET sum == filled + Head(fills).quantity
         IN  SequentialStatus(
                 IF Abs(sum - expected_quantity) < ToleranceQuantity
                 THEN "matched"
                 ELSE IF sum > 0 THEN "partial" ELSE status,
                 sum, expected_quantity, Tail(fills))

Orderings(n) ==
    {p \in [1..n -> 1..n] : \A i, j \in 1..n : p[i] = p[j] => i = j}

(* The calls are over: what (a) and (c) of C34 say of the end. *)
FillsSettled(po, calls) ==
    \A i \in 1..Len(po) :
        LET entry == po[i]
            made == SelectSeq(calls,
                              LAMBDA c : c.op = "record_fill"
                                         /\ c.arg.order_id = entry.id)
        IN  /\ Len(entry.fills) = Len(made)
            /\ \A k \in 1..Len(made) :
                  TimesIn(entry.fills, made[k].arg)
                     = Cardinality({j \in 1..Len(made) :
                                       made[j].arg = made[k].arg})
            /\ entry.order # None =>
                  \E p \in Orderings(Len(made)) :
                      entry.status =
                         SequentialStatus(
                             "pending", 0, entry.order[1].qty,
                             [j \in 1..Len(made) |-> made[p[j]].arg])

(* C34: record_fill calls for the same order id that overlap, one running   *)
(* while another is suspended in an alert callback, keep the sums right:    *)
(* every record is emitted with the filled quantity of the fills tracked    *)
(* when it is created, and once no call is suspended the tracked fills hold *)
(* the fill of each call exactly once and the tracked status is the one     *)
(* some sequential execution of the same calls ends with.                   *)
C34_OverlappingFillsKeepSums ==
    [][/\ \A k \in 1..Len(NewRecords) :
             NewRecords[k].filled_quantity
                = SumQuantity(Tracked(pending_orders',
                                      NewRecords[k].order_id).fills)
       /\ (suspended' = << >>) => FillsSettled(pending_orders', finished')]_vars

(* C34, witness: three record_fill calls for o1 are over; the second one    *)
(* matched the order and was suspended in a callback while the third ran    *)
(* and over-filled it; the order is tracked as partial with three fills.    *)
C34_Witness ==
    /\ suspended = << >>
    /\ Len(finished) = 3
    /\ \A k \in 1..3 :
          finished[k].op = "record_fill" /\ finished[k].arg.order_id = "o1"
    /\ finished[3].overlapped
    /\ IsSubmitted(pending_orders, "o1")
    /\ Len(Tracked(pending_orders, "o1").fills) = 3
    /\ Tracked(pending_orders, "o1").status = "partial"
    /\ \E k \in 1..Len(reconciliation_records) :
          /\ reconciliation_records[k].status = "partial"
          /\ reconciliation_records[k].filled_quantity = 1000

(* The calls that ended in this step. *)
NewOutcomes == SubSeq(finished', Len(finished) + 1, Len(finished'))

(* C36: reconcile_end_of_day runs to completion although submit_order and   *)
(* record_fill calls for other order ids run while it is suspended in an    *)
(* alert callback: when the call ends it has not raised, and every order    *)
(* that was tracked and not matched when it began, and every statement id   *)
(* that was not tracked, has been reconciled by it or is matched by now.    *)
C36_EndOfDayCompletes ==
    [][\A k \in 1..Len(NewOutcomes) :
          NewOutcomes[k].op = "reconcile_end_of_day" =>
             /\ NewOutcomes[k].error = "none"
             /\ \A id \in NewOutcomes[k].expected :
                   \/ id \in NewOutcomes[k].reconciled
                   \/ /\ HasPending(pending_orders', id)
                      /\ Tracked(pending_orders', id).status = "matched"]_vars

====
